---- MODULE Spec2Model ----
(***************************************************************************)
(* Verification model of the Iris messaging core:                          *)
(*   - iris.Overlay.subscribe / unsubscribe   (src/service/relay/relay.go) *)
(*   - relay.acceptRelay                      (src/service/relay/relay.go) *)
(*   - carrier.Beat / carrier.Dead, heart keys (src/proto/carrier/heart.go)*)
(*   - gobber.Gobber                          (src/proto/carrier/heart.go) *)
(*   - the session handshake test  (src/proto/session/handshake_test.go)   *)
(*   - the stream echo example     (src/proto/stream/example_test.go)      *)
(* One specification per component shares the module: SpecOverlay,         *)
(* SpecRelay, SpecCarrier, SpecGobber, SpecHeart, SpecSession, SpecStream, *)
(* SpecLocks and SpecCycle; each leaves the other components' variables    *)
(* unchanged.                                                              *)
(***************************************************************************)
EXTENDS Integers, Sequences, FiniteSets, TLC

(***************************************************************************)
(* Bounds of the model.                                                    *)
(***************************************************************************)
\* Number of subscribe/unsubscribe calls started in one behaviour.
MaxCalls == 4

\* Number of overlay events (tree changes, deliveries) in one behaviour.
MaxEvents == 4

\* Messages counted per branch and cycle; the capacity a branch can report.
MaxMsgs == 1
MaxCapacity == 2

\* config.OverlaySpace, the width in bits of an overlay address, scaled down.
OverlaySpace == 4

\* Connection ids, topic names and calling goroutines of the overlay model.
ConnIds == {1, 2}
TopicNames == {"a", "b"}
Threads == {1, 2}

\* The value of an absent error; the errors the overlay can return.
NoErr == "nil"
ErrNotSubscribed == "ErrNotSubscribed"
ErrScribe == "ErrScribe"

VARIABLES
  \* ---- iris.Overlay -------------------------------------------------
  subLive,     \* map topic -> list of subscribed connection ids
  subLock,     \* key set of the map topic -> lock
  scribeSub,   \* number of scribe.Subscribe calls per topic
  scribeUnsub, \* number of scribe.Unsubscribe calls per topic
  lastScribe,  \* the last routing-service call and its result
  scribeLast,  \* per topic: the last call that reached the routing service
  call,        \* per goroutine: the call it runs or has last completed
  ncalls,      \* number of calls started so far
  \* ---- relay.acceptRelay --------------------------------------------
  rpc,         \* per client socket: the position of acceptRelay
  sockOpen,    \* per client socket: the socket is open
  sockLock,    \* per client socket: rel.sockLock is held
  conn,        \* per client socket: state of the carrier connection
  rtrace,      \* per client socket: the handshake steps completed, in order
  rret,        \* per client socket: what acceptRelay returned
  upPc,        \* per client socket: position of the carrier upcall sending a frame
  sockOut,     \* per client socket: the frames written to the client, in order
  \* ---- carrier (heartbeat handlers) ---------------------------------
  topics,      \* c.topics: map decimal string of the topic id -> topic
  parent,      \* per topic object: the parent node, or Nil
  children,    \* per topic object: the child nodes
  msgs,        \* per topic object and branch: messages since the last cycle
  monitored,   \* the ids the heart monitors
  hpc,         \* position of the heart's callback goroutine
  dead,        \* the Dead call in progress or last completed
  loadReports, \* bag of the load reports sent by the last Beat
  subAnnounce, \* bag of the subscribe announcements sent by the last Beat
  generated,   \* per topic: what GenerateReport returned in the last Beat
  reowned,     \* topics re-rooted by Dead, not yet announced nor re-parented
  healed,      \* the topics of reowned that the last Beat found in the map
  nevents,     \* number of overlay events so far
  \* ---- gobber.Gobber -----------------------------------------------
  gTypes,      \* g.types: the messages passed to Init, in order
  gSent,       \* g.outEnc: the types whose definition it has sent
  gKnown,      \* g.inDec: the types whose definition it has received
  gEncGen,     \* which encoder g.outEnc is: the number of replacements
  gDecGen,     \* which decoder g.inDec is: the number of replacements
  gInBuf,      \* g.inBuf: the frames not yet read
  gOutBuf,     \* g.outBuf: the frames written and not yet reset
  gLast,       \* the last call on the Gobber and its outcome
  gPanic,      \* a call has panicked
  gOps,        \* number of calls so far
  \* ---- heart -------------------------------------------------------
  hbEnts,      \* the monitored entities by id: strikes, ping since the last beat
  hbDead,      \* the Dead invocations so far, in order
  hbLast,      \* the last monitor / unmonitor / ping of the carrier
  hbBeats,     \* number of beats so far
  hbOps,       \* number of carrier calls so far
  \* ---- session handshake ---------------------------------------------
  sePhase,     \* state of the session being set up or checked
  seNum,       \* number of sessions closed so far
  seCli,       \* the client end, its ephemeral key, nonce and what the server sent
  seSrv,       \* the server end, its ephemeral key, nonce and what the client sent
  seCliLink,   \* the client session, per subchannel the ciphers and macers
  seSrvLink,   \* the server session, per subchannel the ciphers and macers
  seTest,      \* per subchannel the buffers testLinkCiphers compared
  \* ---- stream echo ---------------------------------------------------
  stPc,        \* position of the echo exchange
  stMsg,       \* the message the client sends
  stCliBuf,    \* the write buffer of the client stream
  stSrvBuf,    \* the write buffer of the server stream
  stC2S,       \* the bytes on the link from client to server
  stS2C,       \* the bytes on the link from server to client
  stSrvData,   \* what the server received
  stCliData,   \* what the client received back
  \* ---- locking of the operations -------------------------------------
  lkPc,        \* per goroutine the statement it is at
  lkHeld,      \* per goroutine the locks it holds
  lkDefer,     \* per goroutine the unlocks it has deferred
  lkRet,       \* per goroutine the return statement it last left by
  \* ---- report assembly in Beat ---------------------------------------
  cyMsgs,      \* per topic and branch the messages counted since the last Cycle
  cySnap,      \* per topic the counters its last report was computed from
  cyPc,        \* position of Beat in its loop over the topics
  cyCalls,     \* per topic the calls Beat made on it in this beat, in order
  cyDelivered, \* per topic and branch the messages delivered so far
  cyReported,  \* per topic and branch the messages the reports so far accounted for
  cyBeats      \* number of beats completed

overlayVars == <<subLive, subLock, scribeSub, scribeUnsub, lastScribe, scribeLast, call, ncalls>>
relayVars == <<rpc, sockOpen, sockLock, conn, rtrace, rret, upPc, sockOut>>
carrierVars == <<topics, parent, children, msgs, monitored, hpc, dead, loadReports,
                 subAnnounce, generated, reowned, healed, nevents>>
gobberVars == <<gTypes, gSent, gKnown, gEncGen, gDecGen, gInBuf, gOutBuf, gLast, gPanic, gOps>>
heartVars == <<hbEnts, hbDead, hbLast, hbBeats, hbOps>>
sessionVars == <<sePhase, seNum, seCli, seSrv, seCliLink, seSrvLink, seTest>>
streamVars == <<stPc, stMsg, stCliBuf, stSrvBuf, stC2S, stS2C, stSrvData, stCliData>>
lockVars == <<lkPc, lkHeld, lkDefer, lkRet>>
cycleVars == <<cyMsgs, cySnap, cyPc, cyCalls, cyDelivered, cyReported, cyBeats>>
vars == <<overlayVars, relayVars, carrierVars, gobberVars, heartVars, sessionVars, streamVars, lockVars, cycleVars>>

\* What the steps of one component leave unchanged: the other components.
exceptOverlay == <<relayVars, carrierVars, gobberVars, heartVars, sessionVars, streamVars, lockVars, cycleVars>>
exceptRelay == <<overlayVars, carrierVars, gobberVars, heartVars, sessionVars, streamVars, lockVars, cycleVars>>
exceptCarrier == <<overlayVars, relayVars, gobberVars, heartVars, sessionVars, streamVars, lockVars, cycleVars>>
exceptGobber == <<overlayVars, relayVars, carrierVars, heartVars, sessionVars, streamVars, lockVars, cycleVars>>
exceptHeart == <<overlayVars, relayVars, carrierVars, gobberVars, sessionVars, streamVars, lockVars, cycleVars>>
exceptSession == <<overlayVars, relayVars, carrierVars, gobberVars, heartVars, streamVars, lockVars, cycleVars>>
exceptStream == <<overlayVars, relayVars, carrierVars, gobberVars, heartVars, sessionVars, lockVars, cycleVars>>
exceptLocks == <<overlayVars, relayVars, carrierVars, gobberVars, heartVars, sessionVars, streamVars, cycleVars>>
exceptCycle == <<overlayVars, relayVars, carrierVars, gobberVars, heartVars, sessionVars, streamVars, lockVars>>

(***************************************************************************)
(* Helpers on Go slices and maps.                                          *)
(***************************************************************************)
Range(s) == {s[i] : i \in 1..Len(s)}

\* The index of the first element of s equal to x (0 when there is none):
\* the loop "for i, subId := range subs { if id == subId { ...; break } }".
FirstIndex(s, x) ==
  IF x \in Range(s) THEN CHOOSE i \in 1..Len(s) : s[i] = x /\ \A j \in 1..(i-1) : s[j] # x
  ELSE 0

\* append(subs[:i], subs[i+1:]...) with the 1-based index i.
RemoveAt(s, i) == SubSeq(s, 1, i-1) \o SubSeq(s, i+1, Len(s))

\* delete(m, k) on a map modelled as a function.
MapDelete(m, k) == [x \in (DOMAIN m) \ {k} |-> m[x]]

\* m[k] = v on a map modelled as a function.
MapPut(m, k, v) == [x \in (DOMAIN m) \cup {k} |-> IF x = k THEN v ELSE m[x]]

IdleCall == [op |-> "none", pc |-> "done", id |-> 0, topic |-> "", ret |-> NoErr, n |-> 0]

(***************************************************************************)
(* iris.New: empty maps, no call made.                                     *)
(***************************************************************************)
OverlayInit ==
  /\ subLive = << >>
  /\ subLock = {}
  /\ scribeSub = [tp \in TopicNames |-> 0]
  /\ scribeUnsub = [tp \in TopicNames |-> 0]
  /\ lastScribe = [op |-> "none", topic |-> "", ret |-> NoErr]
  /\ scribeLast = [tp \in TopicNames |-> "none"]
  /\ call = [t \in Threads |-> IdleCall]
  /\ ncalls = 0

\* Mutant of SubscribeLocked: a new subscription gets its list and no lock.
SubscribeLockedNoLockEntry(t, id, topic) ==
  /\ call[t].pc = "done"
  /\ ncalls < MaxCalls
  /\ ncalls' = ncalls + 1
  /\ IF topic \notin subLock
       THEN /\ subLive' = MapPut(subLive, topic, <<id>>)
            /\ subLock' = subLock
            /\ call' = [call EXCEPT ![t] = [op |-> "subscribe", pc |-> "cascade", id |-> id,
                                            topic |-> topic, ret |-> NoErr, n |-> ncalls + 1]]
       ELSE /\ subLive' = [subLive EXCEPT ![topic] = Append(@, id)]
            /\ subLock' = subLock
            /\ call' = [call EXCEPT ![t] = [op |-> "subscribe", pc |-> "done", id |-> id,
                                            topic |-> topic, ret |-> NoErr, n |-> ncalls + 1]]
  /\ UNCHANGED <<scribeSub, scribeUnsub, lastScribe, scribeLast>>

\* Mutant of SubscribeLocked: the cascade is marked on every subscribe.
SubscribeLockedAlwaysCascade(t, id, topic) ==
  /\ call[t].pc = "done"
  /\ ncalls < MaxCalls
  /\ ncalls' = ncalls + 1
  /\ IF topic \notin subLock
       THEN /\ subLive' = MapPut(subLive, topic, <<id>>)
            /\ subLock' = subLock \cup {topic}
       ELSE /\ subLive' = [subLive EXCEPT ![topic] = Append(@, id)]
            /\ subLock' = subLock
  /\ call' = [call EXCEPT ![t] = [op |-> "subscribe", pc |-> "cascade", id |-> id,
                                  topic |-> topic, ret |-> NoErr, n |-> ncalls + 1]]
  /\ UNCHANGED <<scribeSub, scribeUnsub, lastScribe, scribeLast>>

(***************************************************************************)
(* Overlay.subscribe, the section under o.lock (lines 247-258): creates    *)
(* the entry and marks the cascade when subLock has no entry for topic,    *)
(* otherwise appends id to the list.  Without a cascade the call returns   *)
(* nil at once (line 264).                                                 *)
(***************************************************************************)
SubscribeLocked(t, id, topic) ==
  /\ call[t].pc = "done"
  /\ ncalls < MaxCalls
  /\ ncalls' = ncalls + 1
  /\ IF topic \notin subLock
       THEN /\ subLive' = MapPut(subLive, topic, <<id>>)
            /\ subLock' = subLock \cup {topic}
            /\ call' = [call EXCEPT ![t] = [op |-> "subscribe", pc |-> "cascade", id |-> id,
                                            topic |-> topic, ret |-> NoErr, n |-> ncalls + 1]]
       ELSE /\ subLive' = [subLive EXCEPT ![topic] = Append(@, id)]
            /\ subLock' = subLock
            /\ call' = [call EXCEPT ![t] = [op |-> "subscribe", pc |-> "done", id |-> id,
                                            topic |-> topic, ret |-> NoErr, n |-> ncalls + 1]]
  /\ UNCHANGED <<scribeSub, scribeUnsub, lastScribe, scribeLast>>

\* Mutant of SubscribeCascade: a failed cascade rolls the new entry back.
SubscribeCascadeRollback(t, res) ==
  /\ call[t].op = "subscribe"
  /\ call[t].pc = "cascade"
  /\ scribeSub' = [scribeSub EXCEPT ![call[t].topic] = @ + 1]
  /\ lastScribe' = [op |-> "Subscribe", topic |-> call[t].topic, ret |-> res]
  /\ scribeLast' = [scribeLast EXCEPT ![call[t].topic] = "Subscribe"]
  /\ call' = [call EXCEPT ![t].pc = "done", ![t].ret = res]
  /\ IF res # NoErr
       THEN /\ subLive' = MapDelete(subLive, call[t].topic)
            /\ subLock' = subLock \ {call[t].topic}
       ELSE UNCHANGED <<subLive, subLock>>
  /\ UNCHANGED <<scribeUnsub, ncalls>>

(***************************************************************************)
(* Overlay.subscribe, the cascade after o.lock was released (lines         *)
(* 261-263): "return o.scribe.Subscribe(topic)".  The routing service      *)
(* answers nil or an error.                                                *)
(***************************************************************************)
SubscribeCascade(t, res) ==
  /\ call[t].op = "subscribe"
  /\ call[t].pc = "cascade"
  /\ scribeSub' = [scribeSub EXCEPT ![call[t].topic] = @ + 1]
  /\ lastScribe' = [op |-> "Subscribe", topic |-> call[t].topic, ret |-> res]
  /\ scribeLast' = [scribeLast EXCEPT ![call[t].topic] = "Subscribe"]
  /\ call' = [call EXCEPT ![t].pc = "done", ![t].ret = res]
  /\ UNCHANGED <<subLive, subLock, scribeUnsub, ncalls>>

\* Mutant of Unsubscribe: the emptied topic keeps its entries in the maps.
UnsubscribeNoDelete(t, id, topic, res) ==
  /\ call[t].pc = "done"
  /\ ncalls < MaxCalls
  /\ ncalls' = ncalls + 1
  /\ IF topic \notin subLock \/ FirstIndex(subLive[topic], id) = 0
       THEN /\ call' = [call EXCEPT ![t] = [op |-> "unsubscribe", pc |-> "done", id |-> id,
                          topic |-> topic, ret |-> ErrNotSubscribed, n |-> ncalls + 1]]
            /\ UNCHANGED <<subLive, subLock, scribeSub, scribeUnsub, lastScribe, scribeLast>>
       ELSE LET subs == RemoveAt(subLive[topic], FirstIndex(subLive[topic], id))
            IN  /\ subLive' = [subLive EXCEPT ![topic] = subs]
                /\ IF Len(subs) = 0
                     THEN /\ scribeUnsub' = [scribeUnsub EXCEPT ![topic] = @ + 1]
                          /\ lastScribe' = [op |-> "Unsubscribe", topic |-> topic, ret |-> res]
                          /\ scribeLast' = [scribeLast EXCEPT ![topic] = "Unsubscribe"]
                          /\ call' = [call EXCEPT ![t] = [op |-> "unsubscribe", pc |-> "done",
                                        id |-> id, topic |-> topic, ret |-> res,
                                        n |-> ncalls + 1]]
                     ELSE /\ call' = [call EXCEPT ![t] = [op |-> "unsubscribe", pc |-> "done",
                                        id |-> id, topic |-> topic, ret |-> NoErr,
                                        n |-> ncalls + 1]]
                          /\ UNCHANGED <<scribeUnsub, lastScribe, scribeLast>>
                /\ UNCHANGED <<subLock, scribeSub>>

\* Mutant of Unsubscribe: the check "if !done" is missing, so an id that is
\* not in the list is reported as removed.
UnsubscribeUnchecked(t, id, topic, res) ==
  /\ call[t].pc = "done"
  /\ ncalls < MaxCalls
  /\ ncalls' = ncalls + 1
  /\ IF topic \notin subLock
       THEN /\ call' = [call EXCEPT ![t] = [op |-> "unsubscribe", pc |-> "done", id |-> id,
                          topic |-> topic, ret |-> ErrNotSubscribed, n |-> ncalls + 1]]
            /\ UNCHANGED <<subLive, subLock, scribeSub, scribeUnsub, lastScribe, scribeLast>>
       ELSE LET i == FirstIndex(subLive[topic], id)
                subs == IF i # 0 THEN RemoveAt(subLive[topic], i) ELSE subLive[topic]
            IN  IF Len(subs) = 0
                  THEN /\ subLive' = MapDelete(subLive, topic)
                       /\ subLock' = subLock \ {topic}
                       /\ scribeUnsub' = [scribeUnsub EXCEPT ![topic] = @ + 1]
                       /\ lastScribe' = [op |-> "Unsubscribe", topic |-> topic, ret |-> res]
                       /\ scribeLast' = [scribeLast EXCEPT ![topic] = "Unsubscribe"]
                       /\ call' = [call EXCEPT ![t] = [op |-> "unsubscribe", pc |-> "done",
                                     id |-> id, topic |-> topic, ret |-> res, n |-> ncalls + 1]]
                       /\ UNCHANGED scribeSub
                  ELSE /\ subLive' = [subLive EXCEPT ![topic] = subs]
                       /\ call' = [call EXCEPT ![t] = [op |-> "unsubscribe", pc |-> "done",
                                     id |-> id, topic |-> topic, ret |-> NoErr, n |-> ncalls + 1]]
                       /\ UNCHANGED <<subLock, scribeSub, scribeUnsub, lastScribe, scribeLast>>

(***************************************************************************)
(* Overlay.unsubscribe (lines 269-310), all of it under o.lock (deferred   *)
(* unlock), the call of scribe.Unsubscribe included.                       *)
(***************************************************************************)
Unsubscribe(t, id, topic, res) ==
  /\ call[t].pc = "done"
  /\ ncalls < MaxCalls
  /\ ncalls' = ncalls + 1
  /\ IF topic \notin subLock
       THEN \* lines 275-278
            /\ call' = [call EXCEPT ![t] = [op |-> "unsubscribe", pc |-> "done", id |-> id,
                          topic |-> topic, ret |-> ErrNotSubscribed, n |-> ncalls + 1]]
            /\ UNCHANGED <<subLive, subLock, scribeSub, scribeUnsub, lastScribe, scribeLast>>
       ELSE LET i == FirstIndex(subLive[topic], id)
                done == i # 0
                subs == IF done THEN RemoveAt(subLive[topic], i) ELSE subLive[topic]
            IN  IF ~done
                  THEN \* lines 291-298
                       /\ subLive' = [subLive EXCEPT ![topic] = subs]
                       /\ call' = [call EXCEPT ![t] = [op |-> "unsubscribe", pc |-> "done",
                                     id |-> id, topic |-> topic, ret |-> ErrNotSubscribed,
                                     n |-> ncalls + 1]]
                       /\ UNCHANGED <<subLock, scribeSub, scribeUnsub, lastScribe, scribeLast>>
                  ELSE IF Len(subs) = 0
                  THEN \* lines 299-307
                       /\ subLive' = MapDelete(subLive, topic)
                       /\ subLock' = subLock \ {topic}
                       /\ scribeUnsub' = [scribeUnsub EXCEPT ![topic] = @ + 1]
                       /\ lastScribe' = [op |-> "Unsubscribe", topic |-> topic, ret |-> res]
                       /\ scribeLast' = [scribeLast EXCEPT ![topic] = "Unsubscribe"]
                       /\ call' = [call EXCEPT ![t] = [op |-> "unsubscribe", pc |-> "done",
                                     id |-> id, topic |-> topic, ret |-> res, n |-> ncalls + 1]]
                       /\ UNCHANGED scribeSub
                  ELSE \* lines 291, 309
                       /\ subLive' = [subLive EXCEPT ![topic] = subs]
                       /\ call' = [call EXCEPT ![t] = [op |-> "unsubscribe", pc |-> "done",
                                     id |-> id, topic |-> topic, ret |-> NoErr, n |-> ncalls + 1]]
                       /\ UNCHANGED <<subLock, scribeSub, scribeUnsub, lastScribe, scribeLast>>

SubscribeLockedStep ==
  /\ \E t \in Threads, id \in ConnIds, topic \in TopicNames : SubscribeLocked(t, id, topic)
  /\ UNCHANGED exceptOverlay

SubscribeCascadeStep ==
  /\ \E t \in Threads, res \in {NoErr, ErrScribe} : SubscribeCascade(t, res)
  /\ UNCHANGED exceptOverlay

UnsubscribeStep ==
  /\ \E t \in Threads, id \in ConnIds, topic \in TopicNames, res \in {NoErr, ErrScribe} :
        Unsubscribe(t, id, topic, res)
  /\ UNCHANGED exceptOverlay

OverlayNext ==
  \/ SubscribeLockedStep
  \/ SubscribeCascadeStep
  \/ UnsubscribeStep


(***************************************************************************)
(* relay.acceptRelay (relay.go lines 62-109), one instance per accepted    *)
(* client socket.  procInit, iris.Connect and sendInit each succeed or     *)
(* fail; the steps are the statements of the function in program order.    *)
(***************************************************************************)
Socks == {1, 2, 3}

ErrInit == "ErrInit"
ErrConnect == "ErrConnect"
ErrSend == "ErrSend"

\* Frames written to one client socket.
MaxFrames == 2

RelayInit ==
  /\ rpc = [s \in Socks |-> "new"]
  /\ sockOpen = [s \in Socks |-> TRUE]
  /\ sockLock = [s \in Socks |-> FALSE]
  /\ conn = [s \in Socks |-> "none"]
  /\ rtrace = [s \in Socks |-> << >>]
  /\ rret = [s \in Socks |-> [rel |-> "none", err |-> NoErr]]
  /\ upPc = [s \in Socks |-> "idle"]
  /\ sockOut = [s \in Socks |-> << >>]

\* Mutant of AcceptLock: the relay object is built without taking the
\* socket lock.
AcceptNoLock(s) ==
  /\ rpc[s] = "new"
  /\ rpc' = [rpc EXCEPT ![s] = "procInit"]
  /\ UNCHANGED <<upPc, sockOut, sockOpen, sockLock, conn, rtrace, rret>>

\* Lines 64-84: build the relay object, rel.sockLock.Lock(), defer Unlock.
AcceptLock(s) ==
  /\ rpc[s] = "new"
  /\ rpc' = [rpc EXCEPT ![s] = "procInit"]
  /\ sockLock' = [sockLock EXCEPT ![s] = TRUE]
  /\ UNCHANGED <<upPc, sockOut, sockOpen, conn, rtrace, rret>>

\* A failure return: rel.drop() (lines 112-114) closes the socket, the call
\* returns (nil, err) and the deferred Unlock releases the socket lock.
DropAndReturn(s, err) ==
  /\ sockOpen' = [sockOpen EXCEPT ![s] = FALSE]
  /\ rret' = [rret EXCEPT ![s] = [rel |-> "nil", err |-> err]]
  /\ sockLock' = [sockLock EXCEPT ![s] = FALSE]
  /\ rpc' = [rpc EXCEPT ![s] = "returned"]

\* Lines 87-91: app, err := rel.procInit().
ProcInit(s, ok) ==
  /\ rpc[s] = "procInit"
  /\ IF ok
       THEN /\ rpc' = [rpc EXCEPT ![s] = "connect"]
            /\ rtrace' = [rtrace EXCEPT ![s] = Append(@, "init")]
            /\ UNCHANGED <<upPc, sockOut, sockOpen, sockLock, conn, rret>>
       ELSE /\ DropAndReturn(s, ErrInit)
            /\ UNCHANGED <<upPc, sockOut, conn, rtrace>>

\* Lines 93-98: conn, err := r.iris.Connect(app, rel); rel.iris = conn.
Connect(s, ok) ==
  /\ rpc[s] = "connect"
  /\ IF ok
       THEN /\ rpc' = [rpc EXCEPT ![s] = "sendInit"]
            /\ conn' = [conn EXCEPT ![s] = "open"]
            /\ rtrace' = [rtrace EXCEPT ![s] = Append(@, "connect")]
            /\ UNCHANGED <<upPc, sockOut, sockOpen, sockLock, rret>>
       ELSE /\ DropAndReturn(s, ErrConnect)
            /\ UNCHANGED <<upPc, sockOut, conn, rtrace>>

\* Mutant of SendInit: the error of sendInit is not checked.
SendInitUnchecked(s, ok) ==
  /\ rpc[s] = "sendInit"
  /\ rpc' = [rpc EXCEPT ![s] = "start"]
  /\ rtrace' = [rtrace EXCEPT ![s] = IF ok THEN Append(@, "ack") ELSE @]
  /\ sockOut' = [sockOut EXCEPT ![s] = IF ok THEN Append(@, "init-ack") ELSE @]
  /\ UNCHANGED <<upPc, sockOpen, sockLock, conn, rret>>

\* Lines 101-104: rel.sendInit(); on failure only rel.drop() runs: the
\* carrier connection opened by Connect is not closed.
SendInit(s, ok) ==
  /\ rpc[s] = "sendInit"
  /\ IF ok
       THEN /\ rpc' = [rpc EXCEPT ![s] = "start"]
            /\ rtrace' = [rtrace EXCEPT ![s] = Append(@, "ack")]
            /\ sockOut' = [sockOut EXCEPT ![s] = Append(@, "init-ack")]
            /\ UNCHANGED <<upPc, sockOpen, sockLock, conn, rret>>
       ELSE /\ DropAndReturn(s, ErrSend)
            /\ UNCHANGED <<upPc, sockOut, conn, rtrace>>

\* Line 106: rel.workers.Start().
StartWorkers(s) ==
  /\ rpc[s] = "start"
  /\ rpc' = [rpc EXCEPT ![s] = "process"]
  /\ rtrace' = [rtrace EXCEPT ![s] = Append(@, "workers")]
  /\ UNCHANGED <<upPc, sockOut, sockOpen, sockLock, conn, rret>>

\* Lines 107-108: go rel.process(); return rel, nil (deferred Unlock).
GoProcess(s) ==
  /\ rpc[s] = "process"
  /\ rpc' = [rpc EXCEPT ![s] = "returned"]
  /\ rtrace' = [rtrace EXCEPT ![s] = Append(@, "reader")]
  /\ rret' = [rret EXCEPT ![s] = [rel |-> "rel", err |-> NoErr]]
  /\ sockLock' = [sockLock EXCEPT ![s] = FALSE]
  /\ UNCHANGED <<upPc, sockOut, sockOpen, conn>>

\* A carrier upcall for the connection opened at line 93 (rel is its
\* handler) arrives with a frame for the client.
UpcallArrive(s) ==
  /\ conn[s] = "open"
  /\ upPc[s] = "idle"
  /\ Len(sockOut[s]) < MaxFrames
  /\ upPc' = [upPc EXCEPT ![s] = "waiting"]
  /\ UNCHANGED <<rpc, sockOpen, sockLock, conn, rtrace, rret, sockOut>>

\* The upcall takes rel.sockLock (line 50); Lock blocks while the lock is
\* held.
UpcallLock(s) ==
  /\ upPc[s] = "waiting"
  /\ ~sockLock[s]
  /\ sockLock' = [sockLock EXCEPT ![s] = TRUE]
  /\ upPc' = [upPc EXCEPT ![s] = "writing"]
  /\ UNCHANGED <<rpc, sockOpen, conn, rtrace, rret, sockOut>>

\* The upcall writes its frame to the socket (a write to a closed socket
\* fails and writes nothing) and releases rel.sockLock.
UpcallWrite(s) ==
  /\ upPc[s] = "writing"
  /\ sockOut' = [sockOut EXCEPT ![s] = IF sockOpen[s] THEN Append(@, "frame") ELSE @]
  /\ sockLock' = [sockLock EXCEPT ![s] = FALSE]
  /\ upPc' = [upPc EXCEPT ![s] = "idle"]
  /\ UNCHANGED <<rpc, sockOpen, conn, rtrace, rret>>

AcceptLockStep ==
  /\ \E s \in Socks : AcceptLock(s)
  /\ UNCHANGED exceptRelay

ProcInitStep ==
  /\ \E s \in Socks, ok \in BOOLEAN : ProcInit(s, ok)
  /\ UNCHANGED exceptRelay

ConnectStep ==
  /\ \E s \in Socks, ok \in BOOLEAN : Connect(s, ok)
  /\ UNCHANGED exceptRelay

SendInitStep ==
  /\ \E s \in Socks, ok \in BOOLEAN : SendInit(s, ok)
  /\ UNCHANGED exceptRelay

StartWorkersStep ==
  /\ \E s \in Socks : StartWorkers(s)
  /\ UNCHANGED exceptRelay

GoProcessStep ==
  /\ \E s \in Socks : GoProcess(s)
  /\ UNCHANGED exceptRelay

UpcallArriveStep ==
  /\ \E s \in Socks : UpcallArrive(s)
  /\ UNCHANGED exceptRelay

UpcallLockStep ==
  /\ \E s \in Socks : UpcallLock(s)
  /\ UNCHANGED exceptRelay

UpcallWriteStep ==
  /\ \E s \in Socks : UpcallWrite(s)
  /\ UNCHANGED exceptRelay

RelayNext ==
  \/ AcceptLockStep
  \/ ProcInitStep
  \/ ConnectStep
  \/ SendInitStep
  \/ StartWorkersStep
  \/ GoProcessStep
  \/ UpcallArriveStep
  \/ UpcallLockStep
  \/ UpcallWriteStep

(***************************************************************************)
(* The carrier's heartbeat handlers (heart.go lines 37-122).               *)
(***************************************************************************)
TopicIds == {1, 2}
Nodes == {3, 12}

\* A nil *big.Int (no parent).
Nil == -1

RECURSIVE Pow2(_)
Pow2(n) == IF n = 0 THEN 1 ELSE 2 * Pow2(n - 1)

\* new(big.Int).Lsh(x, n) and new(big.Int).Rsh(x, n) on non-negative x.
Lsh(x, n) == x * Pow2(n)
Rsh(x, n) == x \div Pow2(n)

\* (*big.Int).String(): the decimal digits of a non-negative integer.
RECURSIVE String(_)
String(n) == IF n < 10 THEN <<n>> ELSE Append(String(n \div 10), n % 10)

\* new(big.Int).SetString(sid, 10) on a non-empty string of decimal digits.
RECURSIVE SetString(_)
SetString(sid) ==
  IF Len(sid) = 1 THEN sid[1]
  ELSE 10 * SetString(SubSeq(sid, 1, Len(sid) - 1)) + sid[Len(sid)]

\* The heart id of a node within a topic (lines 39, 45, 51).
HeartId(topic, node) == Lsh(topic, OverlaySpace) + node

DeadIds == {HeartId(t, n) : t \in TopicIds, n \in Nodes}

\* The elements of a finite set of integers in ascending order.
RECURSIVE SortedSeq(_)
SortedSeq(S) ==
  IF S = {} THEN << >>
  ELSE LET m == CHOOSE x \in S : \A y \in S : x <= y
       IN  <<m>> \o SortedSeq(S \ {m})

\* All the orders in which a range loop can visit the keys of a Go map.
Orders(S) == {q \in [1..Cardinality(S) -> S] : \A x \in S : \E i \in DOMAIN q : q[i] = x}

NoDead == [id |-> Nil, topic |-> Nil, node |-> Nil, ok |-> FALSE, pread |-> Nil, did |-> << >>]

CarrierInit ==
  /\ topics = << >>
  /\ parent = [t \in TopicIds |-> Nil]
  /\ children = [t \in TopicIds |-> {}]
  /\ msgs = [t \in TopicIds |-> [n \in Nodes |-> 0]]
  /\ monitored = {}
  /\ hpc = "idle"
  /\ dead = NoDead
  /\ loadReports = << >>
  /\ subAnnounce = << >>
  /\ generated = << >>
  /\ reowned = {}
  /\ healed = {}
  /\ nevents = 0

(***************************************************************************)
(* The topic package and the overlay upcalls, as the specification         *)
(* describes them (sections 3, 4.4 and 4.5).                               *)
(***************************************************************************)
\* The branches of a topic: its children and its parent.
Branches(t) == children[t] \cup (IF parent[t] = Nil THEN {} ELSE {parent[t]})

\* Capacity of a branch: falls with the messages it absorbed, never below 1.
Capacity(t, n) == IF MaxCapacity - msgs[t][n] < 1 THEN 1 ELSE MaxCapacity - msgs[t][n]

\* Topic.GenerateReport: parallel sequences of branch ids and capacities.
GenerateReport(t) ==
  LET ids == SortedSeq(Branches(t))
  IN  [ids |-> ids, caps |-> [i \in DOMAIN ids |-> Capacity(t, ids[i])]]

\* A topic enters the topic map (a local or remote subscription arrives).
TopicCreate(t) ==
  /\ nevents < MaxEvents
  /\ String(t) \notin DOMAIN topics
  /\ topics' = MapPut(topics, String(t), t)
  /\ parent' = [parent EXCEPT ![t] = Nil]
  /\ children' = [children EXCEPT ![t] = {}]
  /\ msgs' = [msgs EXCEPT ![t] = [n \in Nodes |-> 0]]
  /\ reowned' = reowned \ {t}
  /\ nevents' = nevents + 1
  /\ UNCHANGED <<monitored, hpc, dead, loadReports, subAnnounce, generated, healed>>

\* A topic leaves the topic map (garbage collection of an empty topic).
TopicDrop(t) ==
  /\ nevents < MaxEvents
  /\ String(t) \in DOMAIN topics
  /\ topics' = MapDelete(topics, String(t))
  /\ nevents' = nevents + 1
  /\ UNCHANGED <<parent, children, msgs, monitored, hpc, dead, loadReports, subAnnounce,
                 generated, reowned, healed>>

\* Tree link change: the routing service reports parent n for topic t.
TreeParent(t, n) ==
  /\ nevents < MaxEvents
  /\ String(t) \in DOMAIN topics
  /\ n \notin children[t]
  /\ parent' = [parent EXCEPT ![t] = n]
  /\ monitored' = monitored \cup {HeartId(t, n)}
  /\ reowned' = reowned \ {t}
  /\ nevents' = nevents + 1
  /\ UNCHANGED <<topics, children, msgs, hpc, dead, loadReports, subAnnounce, generated, healed>>

\* Tree link change: the routing service reports child n for topic t.
TreeChild(t, n) ==
  /\ nevents < MaxEvents
  /\ String(t) \in DOMAIN topics
  /\ n # parent[t]
  /\ n \notin children[t]
  /\ children' = [children EXCEPT ![t] = @ \cup {n}]
  /\ monitored' = monitored \cup {HeartId(t, n)}
  /\ nevents' = nevents + 1
  /\ UNCHANGED <<topics, parent, msgs, hpc, dead, loadReports, subAnnounce, generated,
                 reowned, healed>>

\* A message is delivered to branch n of topic t.
Deliver(t, n) ==
  /\ nevents < MaxEvents
  /\ String(t) \in DOMAIN topics
  /\ n \in Branches(t)
  /\ msgs[t][n] < MaxMsgs
  /\ msgs' = [msgs EXCEPT ![t][n] = @ + 1]
  /\ nevents' = nevents + 1
  /\ UNCHANGED <<topics, parent, children, monitored, hpc, dead, loadReports, subAnnounce,
                 generated, reowned, healed>>

(***************************************************************************)
(* carrier.Beat (lines 59-93), under c.lock.RLock.                         *)
(***************************************************************************)
\* Mutant of AddReport: the capacity is not taken at the index of the id.
RECURSIVE AddReportMisaligned(_, _, _, _)
AddReportMisaligned(reports, self, rep, i) ==
  IF i > Len(rep.ids) THEN reports
  ELSE LET sid == String(rep.ids[i])
           old == IF sid \in DOMAIN reports THEN reports[sid] ELSE [Tops |-> << >>, Caps |-> << >>]
           new == [Tops |-> Append(old.Tops, self), Caps |-> Append(old.Caps, rep.caps[1])]
       IN  AddReportMisaligned(MapPut(reports, sid, new), self, rep, i + 1)

\* Lines 67-76 for one topic: each (id, cap) of its report is appended to
\* the report of the node, found by the id's decimal string.
RECURSIVE AddReport(_, _, _, _)
AddReport(reports, self, rep, i) ==
  IF i > Len(rep.ids) THEN reports
  ELSE LET sid == String(rep.ids[i])
           old == IF sid \in DOMAIN reports THEN reports[sid] ELSE [Tops |-> << >>, Caps |-> << >>]
           new == [Tops |-> Append(old.Tops, self), Caps |-> Append(old.Caps, rep.caps[i])]
       IN  AddReport(MapPut(reports, sid, new), self, rep, i + 1)

\* Lines 64-78: the loop over c.topics in the order the range visits it.
RECURSIVE CollectReports(_, _, _)
CollectReports(reports, order, k) ==
  IF k > Len(order) THEN reports
  ELSE LET t == topics[order[k]]
       IN  CollectReports(AddReport(reports, t, GenerateReport(t), 1), order, k + 1)

\* Lines 80-86: one "go c.sendReport(id, rep)" per key of the reports map;
\* the sends are a bag, goroutines having no order.
SendReports(reports) ==
  LET Msg(sid) == [to |-> SetString(sid), Tops |-> reports[sid].Tops, Caps |-> reports[sid].Caps]
      sent == {Msg(sid) : sid \in DOMAIN reports}
  IN  [m \in sent |-> Cardinality({sid \in DOMAIN reports : Msg(sid) = m})]

\* Mutant of SendSubscribes: the parent of the topic is not looked at.
SendSubscribesAll ==
  LET sent == {topics[k] : k \in DOMAIN topics}
  IN  [t \in sent |-> Cardinality({k \in DOMAIN topics : topics[k] = t})]

\* Lines 88-92: one "go c.sendSubscribe(top.Self())" per root topic.
SendSubscribes ==
  LET roots == {k \in DOMAIN topics : parent[topics[k]] = Nil}
      sent == {topics[k] : k \in roots}
  IN  [t \in sent |-> Cardinality({k \in roots : topics[k] = t})]

Beat(order) ==
  /\ hpc = "idle"
  /\ loadReports' = SendReports(CollectReports(<< >>, order, 1))
  /\ generated' = [k \in DOMAIN topics |-> [self |-> topics[k], rep |-> GenerateReport(topics[k])]]
  /\ msgs' = [t \in TopicIds |->
                IF String(t) \in DOMAIN topics THEN [n \in Nodes |-> 0] ELSE msgs[t]]
  /\ subAnnounce' = SendSubscribes
  /\ healed' = {t \in reowned : String(t) \in DOMAIN topics}
  /\ reowned' = {t \in reowned : String(t) \notin DOMAIN topics}
  /\ UNCHANGED <<topics, parent, children, monitored, hpc, dead, nevents>>

(***************************************************************************)
(* carrier.Dead (lines 97-122).  The topic is looked up under c.lock; the  *)
(* lock is released before the parent is read and the topic changed.       *)
(***************************************************************************)
\* Lines 99-105 and 119-121: split the id, look the topic up.
DeadLookup(id) ==
  /\ hpc = "idle"
  /\ LET topic == Rsh(id, OverlaySpace)
         node == id - Lsh(topic, OverlaySpace)
         ok == String(topic) \in DOMAIN topics
     IN  /\ dead' = [id |-> id, topic |-> topic, node |-> node, ok |-> ok, pread |-> Nil,
                     did |-> << >>]
         /\ hpc' = IF ok THEN "parent" ELSE "idle"
  /\ UNCHANGED <<topics, parent, children, msgs, monitored, loadReports, subAnnounce,
                 generated, reowned, healed, nevents>>

\* Mutant of DeadParent: any parent is taken for the dead node.
DeadParentAnyParent ==
  /\ hpc = "parent"
  /\ LET p == parent[dead.topic]
     IN  /\ dead' = [dead EXCEPT !.pread = p]
         /\ hpc' = IF p # Nil THEN "unmonitor" ELSE "unsubscribe"
  /\ UNCHANGED <<topics, parent, children, msgs, monitored, loadReports, subAnnounce,
                 generated, reowned, healed, nevents>>

\* Lines 108-109: parent := top.Parent(), compared with the dead node.
DeadParent ==
  /\ hpc = "parent"
  /\ LET p == parent[dead.topic]
     IN  /\ dead' = [dead EXCEPT !.pread = p]
         /\ hpc' = IF p # Nil /\ p = dead.node THEN "unmonitor" ELSE "unsubscribe"
  /\ UNCHANGED <<topics, parent, children, msgs, monitored, loadReports, subAnnounce,
                 generated, reowned, healed, nevents>>

\* Lines 111-113: c.heart.Unmonitor(id); an error is only logged.
DeadUnmonitor ==
  /\ hpc = "unmonitor"
  /\ monitored' = monitored \ {dead.id}
  /\ dead' = [dead EXCEPT !.did = Append(@, <<"Unmonitor", dead.id>>)]
  /\ hpc' = "reown"
  /\ UNCHANGED <<topics, parent, children, msgs, loadReports, subAnnounce, generated,
                 reowned, healed, nevents>>

\* Mutant of DeadReown: the topic keeps its dead parent.
DeadReownKeepsParent ==
  /\ hpc = "reown"
  /\ dead' = [dead EXCEPT !.did = Append(@, <<"Reown", Nil>>)]
  /\ reowned' = reowned \cup {dead.topic}
  /\ hpc' = "idle"
  /\ UNCHANGED <<topics, parent, children, msgs, monitored, loadReports, subAnnounce,
                 generated, healed, nevents>>

\* Line 115: top.Reown(nil).
DeadReown ==
  /\ hpc = "reown"
  /\ parent' = [parent EXCEPT ![dead.topic] = Nil]
  /\ dead' = [dead EXCEPT !.did = Append(@, <<"Reown", Nil>>)]
  /\ reowned' = reowned \cup {dead.topic}
  /\ hpc' = "idle"
  /\ UNCHANGED <<topics, children, msgs, monitored, loadReports, subAnnounce, generated,
                 healed, nevents>>

\* c.handleUnsubscribe(node, topic, false): the node leaves the topic's
\* children and the heart (section 4.5 of the specification).
HandleUnsubscribe(node, topic) ==
  /\ children' = [children EXCEPT ![topic] = @ \ {node}]
  /\ monitored' = monitored \ {HeartId(topic, node)}

\* Line 117.
DeadUnsubscribe ==
  /\ hpc = "unsubscribe"
  /\ HandleUnsubscribe(dead.node, dead.topic)
  /\ dead' = [dead EXCEPT !.did = Append(@, <<"handleUnsubscribe", dead.node, dead.topic>>)]
  /\ hpc' = "idle"
  /\ UNCHANGED <<topics, parent, msgs, loadReports, subAnnounce, generated, reowned,
                 healed, nevents>>

TopicCreateStep ==
  /\ \E t \in TopicIds : TopicCreate(t)
  /\ UNCHANGED exceptCarrier

TopicDropStep ==
  /\ \E t \in TopicIds : TopicDrop(t)
  /\ UNCHANGED exceptCarrier

TreeParentStep ==
  /\ \E t \in TopicIds, n \in Nodes : TreeParent(t, n)
  /\ UNCHANGED exceptCarrier

TreeChildStep ==
  /\ \E t \in TopicIds, n \in Nodes : TreeChild(t, n)
  /\ UNCHANGED exceptCarrier

DeliverStep ==
  /\ \E t \in TopicIds, n \in Nodes : Deliver(t, n)
  /\ UNCHANGED exceptCarrier

BeatStep ==
  /\ \E order \in Orders(DOMAIN topics) : Beat(order)
  /\ UNCHANGED exceptCarrier

DeadLookupStep ==
  /\ \E id \in DeadIds : DeadLookup(id)
  /\ UNCHANGED exceptCarrier

DeadParentStep == DeadParent /\ UNCHANGED exceptCarrier

DeadUnmonitorStep == DeadUnmonitor /\ UNCHANGED exceptCarrier

DeadReownStep == DeadReown /\ UNCHANGED exceptCarrier

DeadUnsubscribeStep == DeadUnsubscribe /\ UNCHANGED exceptCarrier

CarrierNext ==
  \/ TopicCreateStep
  \/ TopicDropStep
  \/ TreeParentStep
  \/ TreeChildStep
  \/ DeliverStep
  \/ BeatStep
  \/ DeadLookupStep
  \/ DeadParentStep
  \/ DeadUnmonitorStep
  \/ DeadReownStep
  \/ DeadUnsubscribeStep

(***************************************************************************)
(* gobber.Gobber (heart.go lines 141-222): a gob encoder and decoder over  *)
(* two byte buffers.  The gob stream is modelled frame by frame: a frame   *)
(* is the definition of a type, a value of a type, or junk.  An encoder    *)
(* sends the definition of a type before the first value of that type; a   *)
(* decoder accepts a value only of a type whose definition it has read,    *)
(* and reads its input frame by frame, so what follows the frame that      *)
(* fails stays in the buffer.                                              *)
(***************************************************************************)
\* Number of calls on the Gobber in one behaviour.
MaxGobOps == 4

GobTypes == {"A", "B"}
GobValues == {0, 1}

DefFrame(ty) == [kind |-> "def", ty |-> ty, v |-> 0]
ValFrame(ty, v) == [kind |-> "val", ty |-> ty, v |-> v]
BadFrame == [kind |-> "bad", ty |-> "", v |-> 0]

GobFrames ==
  {BadFrame} \cup {DefFrame(ty) : ty \in GobTypes}
             \cup {ValFrame(ty, v) : ty \in GobTypes, v \in GobValues}

\* The datagrams handed to Decode: no frame, one frame or two frames.
GobInputs ==
  {<< >>} \cup {<<f>> : f \in GobFrames} \cup {<<f, g>> : f \in GobFrames, g \in GobFrames}

\* The errors of gob.Decoder.Decode.
ErrEOF == "EOF"
ErrBadData == "gob: bad data"
ErrDupType == "gob: duplicate type received"
ErrUnknownType == "gob: type not defined"
ErrMismatch == "gob: type mismatch"

\* gob.Decoder.Decode(msg) with msg of type ty, reading from buf: type
\* definitions are absorbed until a value arrives.
RECURSIVE DecRead(_, _, _)
DecRead(known, buf, ty) ==
  IF buf = << >> THEN [known |-> known, buf |-> buf, err |-> ErrEOF, val |-> 0]
  ELSE LET f == Head(buf)
           rest == Tail(buf)
           Fail(e) == [known |-> known, buf |-> rest, err |-> e, val |-> 0]
       IN  IF f.kind = "bad" THEN Fail(ErrBadData)
           ELSE IF f.kind = "def"
             THEN IF f.ty \in known THEN Fail(ErrDupType)
                  ELSE DecRead(known \cup {f.ty}, rest, ty)
           ELSE IF f.ty \notin known THEN Fail(ErrUnknownType)
           ELSE IF f.ty # ty THEN Fail(ErrMismatch)
           ELSE [known |-> known, buf |-> rest, err |-> NoErr, val |-> f.v]

\* gob.Encoder.Encode(msg) with msg of type ty and value v.
EncWrite(sent, ty, v) ==
  [sent |-> sent \cup {ty},
   frames |-> (IF ty \in sent THEN << >> ELSE <<DefFrame(ty)>>) \o <<ValFrame(ty, v)>>]

\* gobber.New (lines 161-167).
NewGobber == [types |-> << >>, sent |-> {}, known |-> {}, inBuf |-> << >>, outBuf |-> << >>]

GobberInit ==
  /\ gTypes = NewGobber.types
  /\ gSent = NewGobber.sent
  /\ gKnown = NewGobber.known
  /\ gEncGen = 0
  /\ gDecGen = 0
  /\ gInBuf = NewGobber.inBuf
  /\ gOutBuf = NewGobber.outBuf
  /\ gLast = [op |-> "none", ty |-> "", data |-> << >>, err |-> NoErr, val |-> 0,
              types |-> << >>, known |-> {}, inBuf |-> << >>, encGen |-> 0, decGen |-> 0,
              reinit |-> << >>, fails |-> 0, after |-> 0]
  /\ gPanic = FALSE
  /\ gOps = 0

\* The Gobber as a record.
GobberState ==
  [types |-> gTypes, sent |-> gSent, known |-> gKnown, inBuf |-> gInBuf, outBuf |-> gOutBuf]

\* Gobber.Init (lines 170-186) on the Gobber st: the type is appended, the
\* message goes through the encoder into outBuf, outBuf is copied behind
\* what inBuf holds, the decoder reads from inBuf, outBuf is reset.
InitRun(st, ty) ==
  LET e == EncWrite(st.sent, ty, 0)
      out == st.outBuf \o e.frames
      d == DecRead(st.known, st.inBuf \o out, ty)
  IN  [st |-> [types |-> Append(st.types, ty), sent |-> e.sent, known |-> d.known,
               inBuf |-> d.buf, outBuf |-> << >>],
       err |-> d.err]

\* Lines 211-215: Init for each of the old types; an error panics.
RECURSIVE Reinit(_, _, _, _)
Reinit(st, old, i, log) ==
  IF i > Len(old) THEN [st |-> st, log |-> log, panic |-> FALSE]
  ELSE LET r == InitRun(st, old[i])
       IN  IF r.err # NoErr THEN [st |-> r.st, log |-> Append(log, old[i]), panic |-> TRUE]
           ELSE Reinit(r.st, old, i + 1, Append(log, old[i]))

\* Mutant of Rebuild: g.types is not set back to the old list.
RebuildKeepsAppended(st) ==
  LET old == st.types
      r == Reinit([st EXCEPT !.sent = {}, !.known = {}], old, 1, << >>)
  IN  [st |-> r.st, log |-> r.log, panic |-> r.panic]

\* Lines 205-216: new coders over the same buffers, the old types passed
\* through Init again, g.types set back to the old list.
Rebuild(st) ==
  LET old == st.types
      r == Reinit([st EXCEPT !.sent = {}, !.known = {}], old, 1, << >>)
  IN  [st |-> IF r.panic THEN r.st ELSE [r.st EXCEPT !.types = old],
       log |-> r.log, panic |-> r.panic]

\* The record of a call.
GobCall(op, ty, data, err, val, log) ==
  [op |-> op, ty |-> ty, data |-> data, err |-> err, val |-> val,
   types |-> gTypes, known |-> gKnown, inBuf |-> gInBuf, encGen |-> gEncGen,
   decGen |-> gDecGen, reinit |-> log,
   fails |-> IF op = "Decode" /\ err # NoErr THEN gLast.fails + 1 ELSE 0,
   after |-> gLast.fails]

\* Gobber.Init (lines 170-186).
GobInit(ty) ==
  /\ ~gPanic
  /\ gOps < MaxGobOps
  /\ LET r == InitRun(GobberState, ty)
     IN  /\ gTypes' = r.st.types
         /\ gSent' = r.st.sent
         /\ gKnown' = r.st.known
         /\ gInBuf' = r.st.inBuf
         /\ gOutBuf' = r.st.outBuf
         /\ gLast' = GobCall("Init", ty, << >>, r.err, 0, << >>)
  /\ gOps' = gOps + 1
  /\ UNCHANGED <<gEncGen, gDecGen, gPanic>>

\* Gobber.Encode (lines 190-197): the frames are returned, outBuf is reset.
GobEncode(ty, v) ==
  /\ ~gPanic
  /\ gOps < MaxGobOps
  /\ LET e == EncWrite(gSent, ty, v)
     IN  /\ gSent' = e.sent
         /\ gOutBuf' = << >>
         /\ gLast' = GobCall("Encode", ty, gOutBuf \o e.frames, NoErr, v, << >>)
  /\ gOps' = gOps + 1
  /\ UNCHANGED <<gTypes, gKnown, gEncGen, gDecGen, gInBuf, gPanic>>

\* Gobber.Decode (lines 200-222): data is written behind what inBuf holds
\* and decoded; on an error the coders are rebuilt and the error of the
\* decode is returned.  inBuf is reset when the call ends (line 202), not
\* before the rebuild.
GobDecode(data, ty) ==
  /\ ~gPanic
  /\ gOps < MaxGobOps
  /\ LET d == DecRead(gKnown, gInBuf \o data, ty)
         r == Rebuild([GobberState EXCEPT !.known = d.known, !.inBuf = d.buf])
     IN  IF d.err = NoErr
           THEN /\ gKnown' = d.known
                /\ gLast' = GobCall("Decode", ty, data, NoErr, d.val, << >>)
                /\ UNCHANGED <<gTypes, gSent, gEncGen, gDecGen, gOutBuf, gPanic>>
           ELSE /\ gTypes' = r.st.types
                /\ gSent' = r.st.sent
                /\ gKnown' = r.st.known
                /\ gEncGen' = gEncGen + 1
                /\ gDecGen' = gDecGen + 1
                /\ gOutBuf' = r.st.outBuf
                /\ gPanic' = r.panic
                /\ gLast' = GobCall("Decode", ty, data, d.err, 0, r.log)
  /\ gInBuf' = << >>
  /\ gOps' = gOps + 1

GobInitStep ==
  /\ \E ty \in GobTypes : GobInit(ty)
  /\ UNCHANGED exceptGobber

GobEncodeStep ==
  /\ \E ty \in GobTypes, v \in GobValues : GobEncode(ty, v)
  /\ UNCHANGED exceptGobber

GobDecodeStep ==
  /\ \E data \in GobInputs, ty \in GobTypes : GobDecode(data, ty)
  /\ UNCHANGED exceptGobber

GobberNext ==
  \/ GobInitStep
  \/ GobEncodeStep
  \/ GobDecodeStep

(***************************************************************************)
(* The heart behind carrier.monitor / unmonitor / ping and carrier.Dead    *)
(* (heart.go lines 37-53 and 97-100).  The heart package itself is         *)
(* modelled from section 4.3 of the specification: per monitored id a      *)
(* strike counter and the fact of a ping since the last beat.              *)
(***************************************************************************)
\* heart kill_threshold, in beats.
KillThreshold == 2

\* Beats in one behaviour beyond the kill threshold; carrier calls in one
\* behaviour.
MaxExtraBeats == 3
MaxHeartOps == 3

\* Topics and nodes of the monitored pairs: the ends of the node range.
KeyTopics == {0, 1}
KeyNodes == {0, 1, Pow2(OverlaySpace) - 1}

\* Line 39: the id carrier.monitor hands to heart.Monitor.
MonitorId(topic, node) == Lsh(topic, OverlaySpace) + node

\* Line 45: the id carrier.unmonitor hands to heart.Unmonitor.
UnmonitorId(topic, node) == Lsh(topic, OverlaySpace) + node

\* Mutant of PingId: topic and node change places.
PingIdSwapped(topic, node) == Lsh(node, OverlaySpace) + topic

\* Line 51: the id carrier.ping hands to heart.Ping.
PingId(topic, node) == Lsh(topic, OverlaySpace) + node

\* Lines 99-100: carrier.Dead splits the id into topic and node.
DeadSplit(id) ==
  LET topic == Rsh(id, OverlaySpace)
  IN  [topic |-> topic, node |-> id - Lsh(topic, OverlaySpace)]

HeartInit ==
  /\ hbEnts = << >>
  /\ hbDead = << >>
  /\ hbLast = [op |-> "none", topic |-> 0, node |-> 0, id |-> 0, hit |-> FALSE, key |-> <<0, 0>>]
  /\ hbBeats = 0
  /\ hbOps = 0

\* carrier.monitor (lines 38-41) with heart.Monitor: tracking begins, the
\* last ping is now.
CarrierMonitor(topic, node) ==
  LET id == MonitorId(topic, node)
  IN  /\ hbOps < MaxHeartOps
      /\ id \notin DOMAIN hbEnts
      /\ hbEnts' = MapPut(hbEnts, id, [strikes |-> 0, pinged |-> TRUE, age |-> 0,
                                       key |-> <<topic, node>>, inc |-> hbOps + 1])
      /\ hbLast' = [op |-> "monitor", topic |-> topic, node |-> node, id |-> id,
                    hit |-> FALSE, key |-> <<topic, node>>]
      /\ hbOps' = hbOps + 1
      /\ UNCHANGED <<hbDead, hbBeats>>

\* carrier.unmonitor (lines 44-47) with heart.Unmonitor: tracking stops;
\* an absent id is no error.
CarrierUnmonitor(topic, node) ==
  LET id == UnmonitorId(topic, node)
      hit == id \in DOMAIN hbEnts
  IN  /\ hbOps < MaxHeartOps
      /\ hbEnts' = MapDelete(hbEnts, id)
      /\ hbLast' = [op |-> "unmonitor", topic |-> topic, node |-> node, id |-> id,
                    hit |-> hit, key |-> IF hit THEN hbEnts[id].key ELSE <<topic, node>>]
      /\ hbOps' = hbOps + 1
      /\ UNCHANGED <<hbDead, hbBeats>>

\* carrier.ping (lines 50-53) with heart.Ping: the last ping is now, the
\* strikes are reset; an id that is not monitored is an error.
CarrierPing(topic, node) ==
  LET id == PingId(topic, node)
      hit == id \in DOMAIN hbEnts
  IN  /\ hbOps < MaxHeartOps
      /\ hbEnts' = IF hit THEN [hbEnts EXCEPT ![id].strikes = 0, ![id].pinged = TRUE, ![id].age = 0]
                   ELSE hbEnts
      /\ hbLast' = [op |-> "ping", topic |-> topic, node |-> node, id |-> id,
                    hit |-> hit, key |-> IF hit THEN hbEnts[id].key ELSE <<topic, node>>]
      /\ hbOps' = hbOps + 1
      /\ UNCHANGED <<hbDead, hbBeats>>

\* The record of one Dead(id) invocation: carrier.Dead's split of the id.
DeadCall(id) ==
  [id |-> id, topic |-> DeadSplit(id).topic, node |-> DeadSplit(id).node,
   key |-> hbEnts[id].key, age |-> hbEnts[id].age, inc |-> hbEnts[id].inc]

\* Mutant of HeartBeat: an id whose death is reported stays monitored.
HeartBeatKeepsDead ==
  LET killed == {id \in DOMAIN hbEnts : hbEnts[id].strikes >= KillThreshold}
      order == SortedSeq(killed)
  IN  /\ hbBeats < KillThreshold + MaxExtraBeats
      /\ hbEnts' = [id \in DOMAIN hbEnts |->
                      [hbEnts[id] EXCEPT !.strikes = IF hbEnts[id].pinged THEN 0 ELSE @ + 1,
                                         !.pinged = FALSE,
                                         !.age = @ + 1]]
      /\ hbDead' = hbDead \o [i \in DOMAIN order |-> DeadCall(order[i])]
      /\ hbBeats' = hbBeats + 1
      /\ UNCHANGED <<hbLast, hbOps>>

\* One beat of the heart: an id with kill_threshold strikes is removed and
\* Dead(id) is invoked; an id without a ping since the last beat gets a
\* strike; the strikes of a pinged id are reset.
HeartBeat ==
  LET killed == {id \in DOMAIN hbEnts : hbEnts[id].strikes >= KillThreshold}
      order == SortedSeq(killed)
  IN  /\ hbBeats < KillThreshold + MaxExtraBeats
      /\ hbEnts' = [id \in (DOMAIN hbEnts) \ killed |->
                      [hbEnts[id] EXCEPT !.strikes = IF hbEnts[id].pinged THEN 0 ELSE @ + 1,
                                         !.pinged = FALSE,
                                         !.age = @ + 1]]
      /\ hbDead' = hbDead \o [i \in DOMAIN order |-> DeadCall(order[i])]
      /\ hbBeats' = hbBeats + 1
      /\ UNCHANGED <<hbLast, hbOps>>

CarrierMonitorStep ==
  /\ \E t \in KeyTopics, n \in KeyNodes : CarrierMonitor(t, n)
  /\ UNCHANGED exceptHeart

CarrierUnmonitorStep ==
  /\ \E t \in KeyTopics, n \in KeyNodes : CarrierUnmonitor(t, n)
  /\ UNCHANGED exceptHeart

CarrierPingStep ==
  /\ \E t \in KeyTopics, n \in KeyNodes : CarrierPing(t, n)
  /\ UNCHANGED exceptHeart

HeartBeatStep == HeartBeat /\ UNCHANGED exceptHeart

HeartNext ==
  \/ CarrierMonitorStep
  \/ CarrierUnmonitorStep
  \/ CarrierPingStep
  \/ HeartBeatStep

(***************************************************************************)
(* The session handshake exercised by TestHandshake (handshake_test.go     *)
(* lines 32-106).  Dial and Accept are modelled from section 4.1 of the    *)
(* specification: a Diffie-Hellman exchange over ephemeral keys, the       *)
(* shared secret and the nonces expanded into a cipher key and a MAC key   *)
(* per direction and subchannel.  Buffers are sequences of bits.           *)
(***************************************************************************)
\* The sessions one listener accepts in sequence (the loop of line 46).
MaxSessions == 3

\* Length of the buffer the ciphers are run over (4096 bytes in the test).
BufLen == 4

\* The group of the key exchange; the size of the key space.
DHPrime == 23
DHGen == 5
KeySpace == 16

\* Ephemeral private keys and nonces.
SessExps == {1, 2, 3}
SessNonces == {0, 1}

SessChans == {"ctrl", "data"}

RECURSIVE PowMod(_, _, _)
PowMod(g, e, p) == IF e = 0 THEN 1 ELSE (g * PowMod(g, e - 1, p)) % p

\* The key derivation: one key per subchannel, direction and use.
Kdf(secret, nc, ns, chan, dir, use) ==
  LET label == (IF chan = "ctrl" THEN 0 ELSE 4) + (IF dir = "c2s" THEN 0 ELSE 2)
               + (IF use = "cipher" THEN 0 ELSE 1)
  IN  (secret * 7 + nc * 3 + ns * 5 + label * 11) % KeySpace

\* Mutant of ServerLink: the server takes the directions as the client does.
ServerLinkAsClient(secret, nc, ns, chan) ==
  [inCipher |-> Kdf(secret, nc, ns, chan, "s2c", "cipher"),
   outCipher |-> Kdf(secret, nc, ns, chan, "c2s", "cipher"),
   inMacer |-> [key |-> Kdf(secret, nc, ns, chan, "s2c", "mac"), data |-> << >>],
   outMacer |-> [key |-> Kdf(secret, nc, ns, chan, "c2s", "mac"), data |-> << >>]]

\* The link of the dialling side: it sends client-to-server.
ClientLink(secret, nc, ns, chan) ==
  [inCipher |-> Kdf(secret, nc, ns, chan, "s2c", "cipher"),
   outCipher |-> Kdf(secret, nc, ns, chan, "c2s", "cipher"),
   inMacer |-> [key |-> Kdf(secret, nc, ns, chan, "s2c", "mac"), data |-> << >>],
   outMacer |-> [key |-> Kdf(secret, nc, ns, chan, "c2s", "mac"), data |-> << >>]]

\* The link of the accepting side: it sends server-to-client.
ServerLink(secret, nc, ns, chan) ==
  [inCipher |-> Kdf(secret, nc, ns, chan, "c2s", "cipher"),
   outCipher |-> Kdf(secret, nc, ns, chan, "s2c", "cipher"),
   inMacer |-> [key |-> Kdf(secret, nc, ns, chan, "c2s", "mac"), data |-> << >>],
   outMacer |-> [key |-> Kdf(secret, nc, ns, chan, "s2c", "mac"), data |-> << >>]]

\* cipher.XORKeyStream(dst, src): src xor the keystream of the key.
XORKeyStream(key, src) ==
  [i \in DOMAIN src |-> (src[i] + ((key \div Pow2((i - 1) % 4)) % 2)) % 2]

\* macer.Write(data) and macer.Sum(nil): a keyed digest, as bits, of all
\* that was written.
MacWrite(macer, data) == [macer EXCEPT !.data = @ \o data]

RECURSIVE Weigh(_)
Weigh(data) == IF data = << >> THEN 0 ELSE Len(data) * Head(data) + 3 * Weigh(Tail(data))

MacSum(macer) ==
  LET d == (macer.key * 5 + Weigh(macer.data) + Len(macer.data)) % KeySpace
  IN  [i \in 1..4 |-> (d \div Pow2(i - 1)) % 2]

NoLink == ClientLink(0, 0, 0, "ctrl")

SessionInit ==
  /\ sePhase = "idle"
  /\ seNum = 0
  /\ seCli = [priv |-> 0, nonce |-> 0, peer |-> 0, peerNonce |-> 0]
  /\ seSrv = [priv |-> 0, nonce |-> 0, peer |-> 0, peerNonce |-> 0]
  /\ seCliLink = [ch \in SessChans |-> NoLink]
  /\ seSrvLink = [ch \in SessChans |-> NoLink]
  /\ seTest = [ch \in SessChans |-> << >>]

\* Dial: the client makes its ephemeral key and nonce and sends the public
\* half.
SessDial(a, nc) ==
  /\ sePhase = "idle"
  /\ seNum < MaxSessions
  /\ seCli' = [priv |-> a, nonce |-> nc, peer |-> 0, peerNonce |-> 0]
  /\ sePhase' = "dialing"
  /\ UNCHANGED <<seNum, seSrv, seCliLink, seSrvLink, seTest>>

\* Accept: the server takes the client's public half and nonce, replies
\* with its own, and derives its links.
SessAccept(b, ns) ==
  /\ sePhase = "dialing"
  /\ LET pub == PowMod(DHGen, seCli.priv, DHPrime)
         secret == PowMod(pub, b, DHPrime)
     IN  /\ seSrv' = [priv |-> b, nonce |-> ns, peer |-> pub, peerNonce |-> seCli.nonce]
         /\ seSrvLink' = [ch \in SessChans |-> ServerLink(secret, seCli.nonce, ns, ch)]
  /\ sePhase' = "handshaking"
  /\ UNCHANGED <<seNum, seCli, seCliLink, seTest>>

\* Dial returns: the client takes the server's public half and nonce and
\* derives its links; the server's session arrives on sock.Sink.
SessDialReturn ==
  /\ sePhase = "handshaking"
  /\ LET pub == PowMod(DHGen, seSrv.priv, DHPrime)
         secret == PowMod(pub, seCli.priv, DHPrime)
     IN  /\ seCli' = [seCli EXCEPT !.peer = pub, !.peerNonce = seSrv.nonce]
         /\ seCliLink' = [ch \in SessChans |-> ClientLink(secret, seCli.nonce, seSrv.nonce, ch)]
  /\ sePhase' = "live"
  /\ UNCHANGED <<seNum, seSrv, seSrvLink, seTest>>

\* testLinkCiphers (lines 77-106) on one pair of links: the buffers after
\* each of the four comparisons.
TestLinkCiphers(client, server) ==
  LET zero == [i \in 1..BufLen |-> 0]
      c1 == XORKeyStream(client.inCipher, zero)
      s1 == XORKeyStream(server.outCipher, zero)
      c2 == XORKeyStream(client.outCipher, c1)
      s2 == XORKeyStream(server.inCipher, s1)
      c3 == MacSum(MacWrite(client.inMacer, c2))
      s3 == MacSum(MacWrite(server.outMacer, s2))
      c4 == MacSum(MacWrite(client.outMacer, c3))
      s4 == MacSum(MacWrite(server.inMacer, s3))
  IN  << <<c1, s1>>, <<c2, s2>>, <<c3, s3>>, <<c4, s4>> >>

\* Lines 55-56: the control links, then the data links.
SessTest ==
  /\ sePhase = "live"
  /\ seTest' = [ch \in SessChans |-> TestLinkCiphers(seCliLink[ch], seSrvLink[ch])]
  /\ sePhase' = "tested"
  /\ UNCHANGED <<seNum, seCli, seSrv, seCliLink, seSrvLink>>

\* Lines 59-64: both sessions are closed; the listener goes on accepting.
SessClose ==
  /\ sePhase = "tested"
  /\ sePhase' = "idle"
  /\ seNum' = seNum + 1
  /\ UNCHANGED <<seCli, seSrv, seCliLink, seSrvLink, seTest>>

SessDialStep ==
  /\ \E a \in SessExps, nc \in SessNonces : SessDial(a, nc)
  /\ UNCHANGED exceptSession

SessAcceptStep ==
  /\ \E b \in SessExps, ns \in SessNonces : SessAccept(b, ns)
  /\ UNCHANGED exceptSession

SessDialReturnStep == SessDialReturn /\ UNCHANGED exceptSession

SessTestStep == SessTest /\ UNCHANGED exceptSession

SessCloseStep == SessClose /\ UNCHANGED exceptSession

SessionNext ==
  \/ SessDialStep
  \/ SessAcceptStep
  \/ SessDialReturnStep
  \/ SessTestStep
  \/ SessCloseStep

(***************************************************************************)
(* The stream echo of Example_usage (example_test.go lines 32-120).  Send, *)
(* Flush and Recv are modelled from section 4.2 of the specification:      *)
(* Send serialises the message and length-prefixes it into the stream's    *)
(* write buffer, Flush pushes the buffer onto the link, Recv reads one     *)
(* frame off the link and decodes it.  A message is a string of bytes.     *)
(***************************************************************************)
\* Length of the message sent.
MaxMsgLen == 3

StreamBytes == {0, 1, 2}
StreamMsgs == UNION {[1..n -> StreamBytes] : n \in 0..MaxMsgLen}

\* The codec on a string: its length, then its bytes.
StreamEncode(m) == <<Len(m)>> \o m

\* Send: the serialised message behind its length.
StreamFrame(m) == <<Len(StreamEncode(m))>> \o StreamEncode(m)

\* A whole frame is on the link.
FrameReady(link) == Len(link) >= 1 /\ Len(link) >= 1 + link[1]

\* Mutant of StreamRecv: the last byte of the string is not taken.
StreamRecvShort(link) ==
  LET body == SubSeq(link, 2, 1 + link[1])
      m == IF body[1] = 0 THEN << >> ELSE SubSeq(body, 2, body[1])
  IN  [msg |-> m, link |-> SubSeq(link, 2 + link[1], Len(link))]

\* Recv: one frame is taken off the link by its length prefix and decoded
\* by the length of the string.
StreamRecv(link) ==
  LET body == SubSeq(link, 2, 1 + link[1])
      m == SubSeq(body, 2, 1 + body[1])
  IN  [msg |-> m, link |-> SubSeq(link, 2 + link[1], Len(link))]

StreamInit ==
  /\ stPc = "start"
  /\ stMsg = << >>
  /\ stCliBuf = << >>
  /\ stSrvBuf = << >>
  /\ stC2S = << >>
  /\ stS2C = << >>
  /\ stSrvData = << >>
  /\ stCliData = << >>

\* client, line 106: strm.Send(msg).
ClientSend(m) ==
  /\ stPc = "start"
  /\ stMsg' = m
  /\ stCliBuf' = stCliBuf \o StreamFrame(m)
  /\ stPc' = "sent"
  /\ UNCHANGED <<stSrvBuf, stC2S, stS2C, stSrvData, stCliData>>

\* client, line 110: strm.Flush().
ClientFlush ==
  /\ stPc = "sent"
  /\ stC2S' = stC2S \o stCliBuf
  /\ stCliBuf' = << >>
  /\ stPc' = "flushed"
  /\ UNCHANGED <<stMsg, stSrvBuf, stS2C, stSrvData, stCliData>>

\* server, line 79: strm.Recv(&data).
ServerRecv ==
  /\ stPc = "flushed"
  /\ FrameReady(stC2S)
  /\ stSrvData' = StreamRecv(stC2S).msg
  /\ stC2S' = StreamRecv(stC2S).link
  /\ stPc' = "received"
  /\ UNCHANGED <<stMsg, stCliBuf, stSrvBuf, stS2C, stCliData>>

\* server, line 83: strm.Send(&data).
ServerSend ==
  /\ stPc = "received"
  /\ stSrvBuf' = stSrvBuf \o StreamFrame(stSrvData)
  /\ stPc' = "echoed"
  /\ UNCHANGED <<stMsg, stCliBuf, stC2S, stS2C, stSrvData, stCliData>>

\* server, line 87: strm.Flush().
ServerFlush ==
  /\ stPc = "echoed"
  /\ stS2C' = stS2C \o stSrvBuf
  /\ stSrvBuf' = << >>
  /\ stPc' = "replied"
  /\ UNCHANGED <<stMsg, stCliBuf, stC2S, stSrvData, stCliData>>

\* client, lines 114-119: strm.Recv(&msg); ch <- msg.
ClientRecv ==
  /\ stPc = "replied"
  /\ FrameReady(stS2C)
  /\ stCliData' = StreamRecv(stS2C).msg
  /\ stS2C' = StreamRecv(stS2C).link
  /\ stPc' = "done"
  /\ UNCHANGED <<stMsg, stCliBuf, stSrvBuf, stC2S, stSrvData>>

ClientSendStep ==
  /\ \E m \in StreamMsgs : ClientSend(m)
  /\ UNCHANGED exceptStream

ClientFlushStep == ClientFlush /\ UNCHANGED exceptStream

ServerRecvStep == ServerRecv /\ UNCHANGED exceptStream

ServerSendStep == ServerSend /\ UNCHANGED exceptStream

ServerFlushStep == ServerFlush /\ UNCHANGED exceptStream

ClientRecvStep == ClientRecv /\ UNCHANGED exceptStream

StreamNext ==
  \/ ClientSendStep
  \/ ClientFlushStep
  \/ ServerRecvStep
  \/ ServerSendStep
  \/ ServerFlushStep
  \/ ClientRecvStep

(***************************************************************************)
(* The locking of Overlay.subscribe, Overlay.unsubscribe (relay.go lines   *)
(* 243-310), Relay.acceptRelay (lines 62-109), carrier.Beat and            *)
(* carrier.Dead (heart.go lines 59-122), statement by statement.  A        *)
(* position is named after the function and the line of its statement.     *)
(* The per-topic lock is the copy that "lock, ok := o.subLock[topic]"      *)
(* takes out of the map, and rel.sockLock belongs to the relay made by     *)
(* the call: no other goroutine can hold either.                           *)
(***************************************************************************)
LockThreads == {1, 2}

LockNames == {"o.lock", "topic lock", "rel.sockLock", "c.lock"}

\* The entry of each function.
EntryOf ==
  [subscribe |-> "s247", unsubscribe |-> "u270", acceptRelay |-> "a83",
   Beat |-> "b60", Dead |-> "d103"]

\* Mutant of LockAt: unsubscribe does not defer the unlock of o.lock.
LockAtNoDefer ==
  [s247 |-> [lock |-> "o.lock", read |-> FALSE, deferred |-> FALSE, next |-> "s248"],
   s254 |-> [lock |-> "topic lock", read |-> FALSE, deferred |-> FALSE, next |-> "s256"],
   u270 |-> [lock |-> "o.lock", read |-> FALSE, deferred |-> FALSE, next |-> "u275"],
   u281 |-> [lock |-> "topic lock", read |-> FALSE, deferred |-> FALSE, next |-> "u292"],
   a83 |-> [lock |-> "rel.sockLock", read |-> FALSE, deferred |-> TRUE, next |-> "a87"],
   b60 |-> [lock |-> "c.lock", read |-> TRUE, deferred |-> TRUE, next |-> "b93"],
   d103 |-> [lock |-> "c.lock", read |-> TRUE, deferred |-> FALSE, next |-> "d105"]]

\* The Lock and RLock statements: the lock, whether its unlock is deferred
\* by the next statement, and the position that follows.
LockAt ==
  [s247 |-> [lock |-> "o.lock", read |-> FALSE, deferred |-> FALSE, next |-> "s248"],
   s254 |-> [lock |-> "topic lock", read |-> FALSE, deferred |-> FALSE, next |-> "s256"],
   u270 |-> [lock |-> "o.lock", read |-> FALSE, deferred |-> TRUE, next |-> "u275"],
   u281 |-> [lock |-> "topic lock", read |-> FALSE, deferred |-> FALSE, next |-> "u292"],
   a83 |-> [lock |-> "rel.sockLock", read |-> FALSE, deferred |-> TRUE, next |-> "a87"],
   b60 |-> [lock |-> "c.lock", read |-> TRUE, deferred |-> TRUE, next |-> "b93"],
   d103 |-> [lock |-> "c.lock", read |-> TRUE, deferred |-> FALSE, next |-> "d105"]]

\* The Unlock and RUnlock statements.  subscribe reaches line 258 with
\* cascade set (s258c) or not (s258n).
UnlockAt ==
  [s256 |-> [lock |-> "topic lock", next |-> "s258n"],
   s258c |-> [lock |-> "o.lock", next |-> "s262"],
   s258n |-> [lock |-> "o.lock", next |-> "s264"],
   u292 |-> [lock |-> "topic lock", next |-> "u295"],
   d105 |-> [lock |-> "c.lock", next |-> "d107"]]

\* The conditions: the positions that can follow.
BranchAt ==
  [s248 |-> {"s258c", "s254"},
   u275 |-> {"u278", "u281"},
   u295 |-> {"u297", "u299"},
   u299 |-> {"u307", "u309"},
   a87 |-> {"a90", "a93"},
   a93 |-> {"a96", "a101"},
   a101 |-> {"a103", "a108"},
   d107 |-> {"d115", "d117", "d120"}]

\* The return statements (for Dead: the end of each branch).
ReturnAt ==
  {"s262", "s264", "u278", "u297", "u307", "u309", "a90", "a96", "a103", "a108", "b93",
   "d115", "d117", "d120"}

LocksInit ==
  /\ lkPc = [t \in LockThreads |-> "idle"]
  /\ lkHeld = [t \in LockThreads |-> {}]
  /\ lkDefer = [t \in LockThreads |-> << >>]
  /\ lkRet = [t \in LockThreads |-> "none"]

\* A goroutine calls one of the functions.
LkCall(t, fn) ==
  /\ lkPc[t] \in {"idle", "returned"}
  /\ lkPc' = [lkPc EXCEPT ![t] = EntryOf[fn]]
  /\ lkRet' = [lkRet EXCEPT ![t] = "none"]
  /\ UNCHANGED <<lkHeld, lkDefer>>

\* The lock is shared by the goroutines: o.lock and c.lock.
SharedLock(l) == l \in {"o.lock", "c.lock"}

\* Lock() waits while another goroutine holds the lock, RLock() while
\* another goroutine holds it for writing (none does in these functions).
LkAcquire(t) ==
  /\ lkPc[t] \in DOMAIN LockAt
  /\ LET a == LockAt[lkPc[t]]
     IN  /\ (SharedLock(a.lock) /\ ~a.read) =>
              \A u \in LockThreads \ {t} : a.lock \notin lkHeld[u]
         /\ lkHeld' = [lkHeld EXCEPT ![t] = @ \cup {a.lock}]
         /\ lkDefer' = [lkDefer EXCEPT ![t] = IF a.deferred THEN <<a.lock>> \o @ ELSE @]
         /\ lkPc' = [lkPc EXCEPT ![t] = a.next]
  /\ UNCHANGED lkRet

LkRelease(t) ==
  /\ lkPc[t] \in DOMAIN UnlockAt
  /\ LET r == UnlockAt[lkPc[t]]
     IN  /\ lkHeld' = [lkHeld EXCEPT ![t] = @ \ {r.lock}]
         /\ lkPc' = [lkPc EXCEPT ![t] = r.next]
  /\ UNCHANGED <<lkDefer, lkRet>>

LkBranch(t, next) ==
  /\ lkPc[t] \in DOMAIN BranchAt
  /\ next \in BranchAt[lkPc[t]]
  /\ lkPc' = [lkPc EXCEPT ![t] = next]
  /\ UNCHANGED <<lkHeld, lkDefer, lkRet>>

\* A return: the deferred unlocks run, and the caller goes on.
LkReturn(t) ==
  /\ lkPc[t] \in ReturnAt
  /\ lkHeld' = [lkHeld EXCEPT ![t] = @ \ Range(lkDefer[t])]
  /\ lkDefer' = [lkDefer EXCEPT ![t] = << >>]
  /\ lkRet' = [lkRet EXCEPT ![t] = lkPc[t]]
  /\ lkPc' = [lkPc EXCEPT ![t] = "returned"]

LkCallStep ==
  /\ \E t \in LockThreads, fn \in DOMAIN EntryOf : LkCall(t, fn)
  /\ UNCHANGED exceptLocks

LkAcquireStep ==
  /\ \E t \in LockThreads : LkAcquire(t)
  /\ UNCHANGED exceptLocks

LkReleaseStep ==
  /\ \E t \in LockThreads : LkRelease(t)
  /\ UNCHANGED exceptLocks

LkBranchStep ==
  /\ \E t \in LockThreads, next \in ReturnAt \cup DOMAIN LockAt \cup DOMAIN UnlockAt \cup DOMAIN BranchAt :
       LkBranch(t, next)
  /\ UNCHANGED exceptLocks

LkReturnStep ==
  /\ \E t \in LockThreads : LkReturn(t)
  /\ UNCHANGED exceptLocks

LocksNext ==
  \/ LkCallStep
  \/ LkAcquireStep
  \/ LkReleaseStep
  \/ LkBranchStep
  \/ LkReturnStep

(***************************************************************************)
(* carrier.Beat's loop over the topics (heart.go lines 64-78), call by     *)
(* call, next to the deliveries that other goroutines count on the topics  *)
(* meanwhile.  Beat holds c.lock for reading only; top.GenerateReport()    *)
(* and top.Cycle() are two calls on the topic, each of which takes the     *)
(* topic's own lock for itself (sections 4.4 and 5 of the specification).  *)
(* The topic map holds the topics of TopicIds, each with the branches of   *)
(* Nodes.                                                                  *)
(***************************************************************************)
\* Deliveries and beats in one behaviour.
MaxDeliveries == 2
MaxCycleBeats == 2

NoCounts == [n \in Nodes |-> 0]

CycleInit ==
  /\ cyMsgs = [t \in TopicIds |-> NoCounts]
  /\ cySnap = [t \in TopicIds |-> NoCounts]
  /\ cyPc = [phase |-> "idle", order |-> << >>, k |-> 0]
  /\ cyCalls = [t \in TopicIds |-> << >>]
  /\ cyDelivered = [t \in TopicIds |-> NoCounts]
  /\ cyReported = [t \in TopicIds |-> NoCounts]
  /\ cyBeats = 0

\* Sum of a function over Nodes, of functions over TopicIds.
RECURSIVE SumOver(_, _)
SumOver(f, S) ==
  IF S = {} THEN 0 ELSE LET x == CHOOSE y \in S : TRUE IN f[x] + SumOver(f, S \ {x})

TotalDelivered == SumOver([t \in TopicIds |-> SumOver(cyDelivered[t], Nodes)], TopicIds)

\* Another goroutine delivers a message to branch n of topic t: the topic
\* counts it.
CyDeliver(t, n) ==
  /\ TotalDelivered < MaxDeliveries
  /\ cyMsgs' = [cyMsgs EXCEPT ![t][n] = @ + 1]
  /\ cyDelivered' = [cyDelivered EXCEPT ![t][n] = @ + 1]
  /\ UNCHANGED <<cySnap, cyPc, cyCalls, cyReported, cyBeats>>

\* Lines 59-65: Beat starts and the range over c.topics fixes an order.
CyBeatStart(order) ==
  /\ cyPc.phase = "idle"
  /\ cyBeats < MaxCycleBeats
  /\ cyPc' = [phase |-> "generate", order |-> order, k |-> 1]
  /\ cyCalls' = [t \in TopicIds |-> << >>]
  /\ UNCHANGED <<cyMsgs, cySnap, cyDelivered, cyReported, cyBeats>>

\* Lines 66-76: ids, caps := top.GenerateReport() for the topic the loop is
\* at; the report is computed from the counters as they are now.
CyGenerateReport ==
  /\ cyPc.phase = "generate"
  /\ LET t == cyPc.order[cyPc.k]
     IN  /\ cySnap' = [cySnap EXCEPT ![t] = cyMsgs[t]]
         /\ cyCalls' = [cyCalls EXCEPT ![t] = Append(@, "GenerateReport")]
  /\ cyPc' = [cyPc EXCEPT !.phase = "cycle"]
  /\ UNCHANGED <<cyMsgs, cyDelivered, cyReported, cyBeats>>

\* Line 77: top.Cycle() resets the counters as they are now; the loop goes
\* to the next topic.
CyCycle ==
  /\ cyPc.phase = "cycle"
  /\ LET t == cyPc.order[cyPc.k]
     IN  /\ cyMsgs' = [cyMsgs EXCEPT ![t] = NoCounts]
         /\ cyReported' = [cyReported EXCEPT ![t] = [n \in Nodes |-> @[n] + cySnap[t][n]]]
         /\ cyCalls' = [cyCalls EXCEPT ![t] = Append(@, "Cycle")]
  /\ cyPc' = IF cyPc.k < Len(cyPc.order) THEN [cyPc EXCEPT !.phase = "generate", !.k = @ + 1]
             ELSE [cyPc EXCEPT !.phase = "send"]
  /\ UNCHANGED <<cySnap, cyDelivered, cyBeats>>

\* Lines 79-93: the reports and announcements are sent, Beat returns.
CyBeatEnd ==
  /\ cyPc.phase = "send"
  /\ cyPc' = [phase |-> "idle", order |-> << >>, k |-> 0]
  /\ cyBeats' = cyBeats + 1
  /\ UNCHANGED <<cyMsgs, cySnap, cyCalls, cyDelivered, cyReported>>

CyDeliverStep ==
  /\ \E t \in TopicIds, n \in Nodes : CyDeliver(t, n)
  /\ UNCHANGED exceptCycle

CyBeatStartStep ==
  /\ \E order \in Orders(TopicIds) : CyBeatStart(order)
  /\ UNCHANGED exceptCycle

CyGenerateReportStep == CyGenerateReport /\ UNCHANGED exceptCycle

CyCycleStep == CyCycle /\ UNCHANGED exceptCycle

CyBeatEndStep == CyBeatEnd /\ UNCHANGED exceptCycle

CycleNext ==
  \/ CyDeliverStep
  \/ CyBeatStartStep
  \/ CyGenerateReportStep
  \/ CyCycleStep
  \/ CyBeatEndStep

Init == OverlayInit /\ RelayInit /\ CarrierInit /\ GobberInit /\ HeartInit /\ SessionInit /\ StreamInit /\ LocksInit /\ CycleInit

SpecOverlay == Init /\ [][OverlayNext]_vars

SpecRelay == Init /\ [][RelayNext]_vars

SpecCarrier == Init /\ [][CarrierNext]_vars

SpecGobber == Init /\ [][GobberNext]_vars

SpecHeart == Init /\ [][HeartNext]_vars

SpecSession == Init /\ [][SessionNext]_vars

SpecStream == Init /\ [][StreamNext]_vars

SpecLocks == Init /\ [][LocksNext]_vars

SpecCycle == Init /\ [][CycleNext]_vars

(***************************************************************************)
(* Properties of Overlay.subscribe and Overlay.unsubscribe, checked under  *)
(* SpecOverlay.                                                            *)
(***************************************************************************)
\* Every goroutine has returned from its call.
AllReturned == \A t \in Threads : call[t].pc = "done"

\* C1: subscribe(id, topic) issues scribe.Subscribe(topic) if and only if the
\* topic had no entry in the subscription maps when the call held the overlay
\* lock; a subscribe to a topic that has an entry only appends the id to the
\* subscriber list and makes no routing-service call.  scribe.Subscribe is
\* called by nothing but the cascade of such a first subscribe, once.
C1_SubscribeCascadesIffFirst ==
  [][ /\ \A t \in Threads, id \in ConnIds, topic \in TopicNames :
           SubscribeLocked(t, id, topic) =>
             /\ (call'[t].pc = "cascade") <=> (topic \notin DOMAIN subLive)
             /\ topic \notin DOMAIN subLive => subLive' = MapPut(subLive, topic, <<id>>)
             /\ topic \in DOMAIN subLive =>
                  /\ subLive' = [subLive EXCEPT ![topic] = Append(@, id)]
                  /\ call'[t].pc = "done"
             /\ scribeSub' = scribeSub /\ scribeUnsub' = scribeUnsub
      /\ \A tp \in TopicNames :
           scribeSub'[tp] # scribeSub[tp] =>
             /\ scribeSub'[tp] = scribeSub[tp] + 1
             /\ \E t \in Threads : /\ call[t].pc = "cascade" /\ call[t].topic = tp
                                   /\ call'[t].pc = "done"
    ]_vars

\* C1 witness: a topic with two subscribers whose calls have returned and a
\* single scribe.Subscribe: the first subscribe cascaded, the second did not.
C1_Witness ==
  \E tp \in TopicNames :
    /\ tp \in DOMAIN subLive
    /\ Len(subLive[tp]) = 2
    /\ scribeSub[tp] = 1
    /\ \A t \in Threads : call[t].op = "subscribe" /\ call[t].pc = "done" /\ call[t].topic = tp

\* C2: subscribe is idempotent per (connection, topic): a subscribe of an id
\* that is already in the topic's list leaves the list as it was, so that one
\* successful unsubscribe(id, topic) removes the id from the topic completely.
C2_SubscribeIdempotent ==
  [][ \A t \in Threads, id \in ConnIds, topic \in TopicNames :
        /\ (SubscribeLocked(t, id, topic) /\ topic \in DOMAIN subLive
              /\ id \in Range(subLive[topic]))
             => subLive'[topic] = subLive[topic]
        /\ ((\E res \in {NoErr, ErrScribe} : Unsubscribe(t, id, topic, res))
              /\ call'[t].ret # ErrNotSubscribed /\ topic \in DOMAIN subLive')
             => id \notin Range(subLive'[topic])
    ]_vars

C4_UnsubscribeAbsent ==
  [][ \A t \in Threads, id \in ConnIds, topic \in TopicNames, res \in {NoErr, ErrScribe} :
        (Unsubscribe(t, id, topic, res)
           /\ (topic \notin DOMAIN subLive \/ id \notin Range(subLive[topic]))) =>
          /\ call'[t].ret = ErrNotSubscribed
          /\ subLive' = subLive
          /\ subLock' = subLock
          /\ scribeUnsub' = scribeUnsub
          /\ lastScribe' = lastScribe
    ]_vars

\* C4 witness: one unsubscribe failed on a topic without entry, another on a
\* topic whose list does not hold the id.
C4_Witness ==
  \E t1, t2 \in Threads :
    /\ call[t1].op = "unsubscribe" /\ call[t1].ret = ErrNotSubscribed
    /\ call[t1].topic \notin DOMAIN subLive
    /\ call[t2].op = "unsubscribe" /\ call[t2].ret = ErrNotSubscribed
    /\ call[t2].topic \in DOMAIN subLive
    /\ call[t2].id \notin Range(subLive[call[t2].topic])

\* C5: when scribe.Subscribe fails in a cascading subscribe, subscribe returns
\* that error and leaves the subscription maps as they are (no rollback); a
\* later subscribe to a topic that has an entry returns nil without a call of
\* the routing service.
C5_SubscribeErrorPropagated ==
  [][ /\ \A t \in Threads, res \in {NoErr, ErrScribe} :
           SubscribeCascade(t, res) =>
             /\ call'[t].ret = res
             /\ lastScribe' = [op |-> "Subscribe", topic |-> call[t].topic, ret |-> res]
             /\ subLive' = subLive
             /\ subLock' = subLock
      /\ \A t \in Threads, id \in ConnIds, topic \in TopicNames :
           (SubscribeLocked(t, id, topic) /\ topic \in DOMAIN subLive) =>
             /\ call'[t].pc = "done"
             /\ call'[t].ret = NoErr
             /\ scribeSub' = scribeSub
             /\ lastScribe' = lastScribe
    ]_vars

\* C5 witness: a cascading subscribe returned the routing service's error,
\* its entry is still in the maps, and a later subscribe to the topic
\* returned nil with no further scribe.Subscribe.
C5_Witness ==
  \E t1, t2 \in Threads :
    /\ call[t1].op = "subscribe" /\ call[t1].pc = "done" /\ call[t1].ret = ErrScribe
    /\ call[t2].op = "subscribe" /\ call[t2].pc = "done" /\ call[t2].ret = NoErr
    /\ call[t2].topic = call[t1].topic
    /\ call[t2].n > call[t1].n
    /\ call[t1].topic \in DOMAIN subLive
    /\ subLive[call[t1].topic] = <<call[t1].id, call[t2].id>>
    /\ scribeSub[call[t1].topic] = 1
    /\ lastScribe.ret = ErrScribe

\* C22: the subscription maps agree.  In every state in which o.lock is
\* not held (the sections under the lock are single steps), subLive and
\* subLock have the same topics as keys and every list is non-empty,
\* whatever subscribe and unsubscribe calls, successful or failing, ran.
C22_SubscriptionMapsAgree ==
  /\ DOMAIN subLive = subLock
  /\ \A tp \in subLock : Len(subLive[tp]) > 0

\* One topic was emptied and removed, and an unsubscribe of an id that is
\* not in the list of a topic still present has failed.
C22_Witness ==
  /\ \E tp \in TopicNames : scribeUnsub[tp] > 0 /\ tp \notin subLock
  /\ \E t \in Threads :
       /\ call[t].op = "unsubscribe" /\ call[t].pc = "done"
       /\ call[t].ret = ErrNotSubscribed
       /\ call[t].topic \in subLock

(***************************************************************************)
(* Properties of relay.acceptRelay, checked under SpecRelay.               *)
(***************************************************************************)
\* The steps of a successful handshake, in order.
Handshake == <<"init", "connect", "ack", "workers", "reader">>

IsPrefix(p, q) == Len(p) <= Len(q) /\ SubSeq(q, 1, Len(p)) = p

\* C6: if a step of the acceptRelay handshake fails, the client socket is
\* closed, acceptRelay returns a nil relay with the error, and no carrier
\* connection opened for this relay remains open after the call returns.
C6_FailedHandshakeLeavesNoCarrierState ==
  \A s \in Socks :
    (rpc[s] = "returned" /\ rret[s].err # NoErr) =>
      /\ ~sockOpen[s]
      /\ rret[s].rel = "nil"
      /\ conn[s] # "open"

\* C7: the worker pool and the reader loop are started only after the whole
\* handshake succeeded, each once, in the order init read, carrier connect,
\* init-ack written, workers started, reader started; on a failure return
\* neither was started.
C7_StartOnlyAfterHandshake ==
  \A s \in Socks :
    /\ IsPrefix(rtrace[s], Handshake)
    /\ (rpc[s] = "returned" /\ rret[s].err = NoErr) => rtrace[s] = Handshake
    /\ (rpc[s] = "returned" /\ rret[s].err # NoErr) =>
         /\ "workers" \notin Range(rtrace[s])
         /\ "reader" \notin Range(rtrace[s])
         /\ rret[s].rel = "nil"
    /\ rpc[s] # "returned" => "reader" \notin Range(rtrace[s])

\* C7 witness: one relay was accepted and runs its workers and reader, one
\* failed at init-ack and one at the carrier connect.
C7_Witness ==
  \E s1, s2, s3 \in Socks :
    /\ rpc[s1] = "returned" /\ rret[s1].err = NoErr /\ rtrace[s1] = Handshake
    /\ rpc[s2] = "returned" /\ rret[s2].err = ErrSend /\ rtrace[s2] = <<"init", "connect">>
    /\ rpc[s3] = "returned" /\ rret[s3].err = ErrConnect /\ rtrace[s3] = <<"init">>

\* C21: no outbound frame passes during the relay handshake.  From the
\* moment acceptRelay has taken the socket lock until it returns, the lock
\* is held and no upcall is writing (an upcall that arrived waits); the
\* first frame on a client socket is init-ack.
C21_NoFrameDuringHandshake ==
  \A s \in Socks :
    /\ rpc[s] \notin {"new", "returned"} => (sockLock[s] /\ upPc[s] # "writing")
    /\ sockOut[s] # << >> => sockOut[s][1] = "init-ack"

\* An upcall arrived after Connect and waited through the rest of the
\* handshake of one socket; on another, its frame followed init-ack.
C21_Witness ==
  \E s1, s2 \in Socks :
    /\ rpc[s1] = "start" /\ upPc[s1] = "waiting" /\ sockOut[s1] = <<"init-ack">>
    /\ rpc[s2] = "returned" /\ sockOut[s2] = <<"init-ack", "frame">>

(***************************************************************************)
(* Properties of carrier.Beat and carrier.Dead, checked under SpecCarrier. *)
(***************************************************************************)
\* C8: Dead(id) splits id into (topic, node).  If the topic is in the topic
\* map and node is the parent read from the topic, Dead unmonitors id and
\* re-owns the topic to nil and performs no unsubscribe; if the topic is in
\* the map and node is not its parent (a root included), Dead handles the
\* event as an unsubscribe of node from topic and does not touch the parent;
\* if the topic is not in the map, no carrier or heart state changes.
C8_DeadDispatch ==
  /\ []((hpc = "idle" /\ dead.id # Nil) =>
          /\ HeartId(dead.topic, dead.node) = dead.id
          /\ dead.node >= 0 /\ dead.node < Pow2(OverlaySpace)
          /\ dead.did = IF ~dead.ok THEN << >>
                        ELSE IF dead.pread = dead.node
                          THEN << <<"Unmonitor", dead.id>>, <<"Reown", Nil>> >>
                          ELSE << <<"handleUnsubscribe", dead.node, dead.topic>> >>)
  /\ [][ /\ \A id \in DeadIds :
              DeadLookup(id) =>
                /\ dead'.ok <=> (String(Rsh(id, OverlaySpace)) \in DOMAIN topics)
                /\ ~dead'.ok => hpc' = "idle"
                /\ UNCHANGED <<topics, parent, children, msgs, monitored>>
         /\ DeadParent =>
              /\ dead'.pread = parent[dead.topic]
              /\ UNCHANGED <<topics, parent, children, msgs, monitored>>
         /\ DeadUnmonitor =>
              /\ dead.id \notin monitored'
              /\ UNCHANGED <<topics, parent, children, msgs>>
         /\ DeadReown =>
              /\ parent' = [parent EXCEPT ![dead.topic] = Nil]
              /\ UNCHANGED <<topics, children, msgs, monitored>>
         /\ DeadUnsubscribe =>
              /\ dead.node \notin children'[dead.topic]
              /\ UNCHANGED <<topics, parent, msgs>>
       ]_vars

\* C8 witness: Dead has returned for the parent of a topic of the map: the
\* id is off the heart and the topic is a root.
C8_Witness ==
  /\ hpc = "idle"
  /\ dead.ok
  /\ dead.pread = dead.node
  /\ Len(dead.did) = 2
  /\ String(dead.topic) \in DOMAIN topics
  /\ parent[dead.topic] = Nil
  /\ dead.id \notin monitored

\* C9: once Dead was invoked with the id of a topic and its parent, the
\* topic's parent is nil, and the next Beat sends a subscribe announcement for
\* the topic, provided the topic is still in the map and got no new parent in
\* between.
C9_ParentDeathReroots ==
  /\ \A t \in reowned : parent[t] = Nil
  /\ \A t \in healed : t \in DOMAIN subAnnounce /\ subAnnounce[t] >= 1

\* C9 witness: a Beat has announced a topic that Dead had re-rooted.
C9_Witness ==
  \E t \in healed :
    /\ dead.topic = t
    /\ dead.pread = dead.node
    /\ t \in DOMAIN subAnnounce
    /\ parent[t] = Nil

\* The entries (topic, capacity) that the topics reported for node n in the
\* last Beat.
Reported(n) ==
  {<<generated[k].self, generated[k].rep.caps[i]>> :
     <<k, i>> \in {ki \in (DOMAIN generated) \X (1..Cardinality(Nodes)) :
                     /\ ki[2] <= Len(generated[ki[1]].rep.ids)
                     /\ generated[ki[1]].rep.ids[ki[2]] = n}}

\* C10: on each Beat exactly one load report is sent per node id that appears
\* in a topic's GenerateReport output; the report has Tops and Caps of equal
\* length, aligned index by index, and holds exactly one (topic, capacity)
\* entry for each topic that reported the node: none lost, duplicated or
\* delivered to another node.
C10_ReportsBucketedByNode ==
  LET dests == {generated[k].rep.ids[i] :
                  <<k, i>> \in {ki \in (DOMAIN generated) \X (1..Cardinality(Nodes)) :
                                  ki[2] <= Len(generated[ki[1]].rep.ids)}}
  IN  /\ {m.to : m \in DOMAIN loadReports} = dests
      /\ \A m \in DOMAIN loadReports :
           /\ loadReports[m] = 1
           /\ \A m2 \in DOMAIN loadReports : m2.to = m.to => m2 = m
           /\ Len(m.Tops) = Len(m.Caps)
           /\ {<<m.Tops[i], m.Caps[i]>> : i \in 1..Len(m.Tops)} = Reported(m.to)
           /\ Len(m.Tops) = Cardinality(Reported(m.to))
           /\ \A i, j \in 1..Len(m.Tops) : m.Tops[i] = m.Tops[j] => i = j

\* C10 witness: a Beat sent one node a report that holds two topics.
C10_Witness ==
  \E m \in DOMAIN loadReports :
    /\ Len(m.Tops) = 2
    /\ m.Tops[1] # m.Tops[2]
    /\ loadReports[m] = 1

\* C11: each Beat sends a subscription announcement for every topic of the
\* map whose parent is nil, exactly once per such topic, and for no topic
\* that has a parent.
C11_BeatAnnouncesRoots ==
  [][\A order \in Orders(DOMAIN topics) :
       Beat(order) =>
         /\ \A k \in DOMAIN topics :
              IF parent[topics[k]] = Nil
                THEN topics[k] \in DOMAIN subAnnounce' /\ subAnnounce'[topics[k]] = 1
                ELSE topics[k] \notin DOMAIN subAnnounce'
         /\ \A t \in DOMAIN subAnnounce' : \E k \in DOMAIN topics : topics[k] = t
    ]_vars

\* C11 witness: a Beat announced one topic and kept silent about another
\* topic of the map, which has a parent.
C11_Witness ==
  \E t1, t2 \in TopicIds :
    /\ t1 \in DOMAIN subAnnounce /\ subAnnounce[t1] = 1
    /\ t2 \notin DOMAIN subAnnounce
    /\ String(t2) \in DOMAIN topics
    /\ parent[t2] # Nil
    /\ parent[t1] = Nil

\* C23: Dead only ever clears the parent that died.  Whenever Dead is about
\* to run top.Reown(nil) (every such state is one in which the call can take
\* effect), the topic is still in the topic map and its parent is the dead
\* node of the event, under any interleaving with tree-link changes and
\* topic removal.
C23_ReownClearsDeadParentOnly ==
  hpc = "reown" =>
    /\ String(dead.topic) \in DOMAIN topics
    /\ parent[dead.topic] = dead.node

(***************************************************************************)
(* Properties of gobber.Gobber, checked under SpecGobber.                  *)
(***************************************************************************)
\* A Gobber on which Init was called with the given types in order.
RECURSIVE FreshGobber(_, _, _)
FreshGobber(st, types, i) ==
  IF i > Len(types) THEN st ELSE FreshGobber(InitRun(st, types[i]).st, types, i + 1)

\* C12: when Gobber.Decode fails and returns, the encoder and the decoder
\* have been replaced by fresh ones, every type registered through Init has
\* been passed to Init again exactly once and in the original order, the
\* list of types is the list from before the call (same order, nothing
\* added, also after several failures in a row), and the error returned is
\* the error of the decode that failed.
C12_DecodeFailureRebuilds ==
  (gLast.op = "Decode" /\ gLast.err # NoErr /\ ~gPanic) =>
    /\ gEncGen = gLast.encGen + 1
    /\ gDecGen = gLast.decGen + 1
    /\ gSent = Range(gLast.types)
    /\ Range(gLast.types) \subseteq gKnown
    /\ gLast.reinit = gLast.types
    /\ gTypes = gLast.types
    /\ gLast.err = DecRead(gLast.known, gLast.inBuf \o gLast.data, gLast.ty).err

\* C12 witness: Decode has failed and returned twice in a row on a Gobber
\* with two registered types.
C12_Witness ==
  /\ gLast.op = "Decode"
  /\ gLast.err # NoErr
  /\ ~gPanic
  /\ gLast.fails = 2
  /\ Len(gTypes) = 2
  /\ gTypes[1] # gTypes[2]

\* A datagram a peer with the same registered types sends: one value of a
\* registered type.
WellFormed(data, ty, types) ==
  /\ Len(data) = 1
  /\ data[1].kind = "val"
  /\ data[1].ty = ty
  /\ ty \in Range(types)

\* C13: codec resilience.  For a malformed datagram between two well-formed
\* ones Decode returns an error and the rebuild completes without a panic,
\* whatever the failed decode left unread in the input buffer; the next
\* well-formed datagram is decoded as a fresh Gobber with the same Init
\* calls decodes it.
C13_CodecResilience ==
  /\ ~gPanic
  /\ (gLast.op = "Decode" /\ gLast.after >= 1 /\ WellFormed(gLast.data, gLast.ty, gLast.types)) =>
       LET fresh == FreshGobber(NewGobber, gLast.types, 1)
           d == DecRead(fresh.known, fresh.inBuf \o gLast.data, gLast.ty)
       IN  /\ gLast.err = NoErr
           /\ gLast.err = d.err
           /\ gLast.val = d.val
           /\ gLast.val = gLast.data[1].v

(***************************************************************************)
(* Properties of the heart keys and of the heart, checked under SpecHeart. *)
(***************************************************************************)
\* C14: the heart key of a (topic, node) pair is unambiguous.  For topic
\* t >= 0 and node 0 <= n < 2^S, monitor, unmonitor and ping use the same id
\* t * 2^S + n, so that unmonitor and ping reach the entity monitor has
\* registered for the same pair and no other; Dead splits the id back into
\* exactly (t, n); two different pairs never get the same id.
C14_HeartKeyUnambiguous ==
  LET Key(t, n) == t * Pow2(OverlaySpace) + n
      Pairs == KeyTopics \X KeyNodes
  IN  /\ \A p \in Pairs :
           /\ MonitorId(p[1], p[2]) = Key(p[1], p[2])
           /\ UnmonitorId(p[1], p[2]) = Key(p[1], p[2])
           /\ PingId(p[1], p[2]) = Key(p[1], p[2])
           /\ DeadSplit(Key(p[1], p[2])) = [topic |-> p[1], node |-> p[2]]
      /\ \A p, q \in Pairs : p # q => Key(p[1], p[2]) # Key(q[1], q[2])
      /\ hbLast.op # "none" =>
           /\ hbLast.id = Key(hbLast.topic, hbLast.node)
           /\ hbLast.key = <<hbLast.topic, hbLast.node>>
      /\ \A id \in DOMAIN hbEnts : id = Key(hbEnts[id].key[1], hbEnts[id].key[2])
      /\ \A i \in DOMAIN hbDead : <<hbDead[i].topic, hbDead[i].node>> = hbDead[i].key

\* C14 witness: with two pairs monitored that differ in the topic only, a
\* ping has reached the entity of its pair, and Dead has been invoked for
\* the other pair, whose node is the largest of the range.
C14_Witness ==
  /\ hbLast.op = "ping"
  /\ hbLast.hit
  /\ hbLast.topic = 1
  /\ hbLast.node = Pow2(OverlaySpace) - 1
  /\ \E i \in DOMAIN hbDead :
       /\ hbDead[i].topic = 0
       /\ hbDead[i].node = Pow2(OverlaySpace) - 1

C15_HandshakeCiphersAgree ==
  LET zero == [i \in 1..BufLen |-> 0]
      ones == [i \in 1..BufLen |-> 1]
  IN  /\ sePhase \in {"live", "tested"} =>
           \A ch \in SessChans :
             LET c == seCliLink[ch]
                 v == seSrvLink[ch]
             IN  /\ XORKeyStream(c.inCipher, zero) = XORKeyStream(v.outCipher, zero)
                 /\ XORKeyStream(c.outCipher, zero) = XORKeyStream(v.inCipher, zero)
                 /\ \A d \in {zero, ones} :
                      /\ MacSum(MacWrite(c.inMacer, d)) = MacSum(MacWrite(v.outMacer, d))
                      /\ MacSum(MacWrite(c.outMacer, d)) = MacSum(MacWrite(v.inMacer, d))
      /\ sePhase = "tested" =>
           \A ch \in SessChans : \A i \in 1..4 : seTest[ch][i][1] = seTest[ch][i][2]

\* C15 witness: the last of the sessions accepted in sequence has passed
\* testLinkCiphers, with different keystreams in the two directions of the
\* control link and different keystreams on the two links.
C15_Witness ==
  LET zero == [i \in 1..BufLen |-> 0]
  IN  /\ sePhase = "tested"
      /\ seNum = MaxSessions - 1
      /\ seTest["ctrl"][1][1] # zero
      /\ XORKeyStream(seCliLink["ctrl"].inCipher, zero) # XORKeyStream(seCliLink["ctrl"].outCipher, zero)
      /\ XORKeyStream(seCliLink["ctrl"].inCipher, zero) # XORKeyStream(seCliLink["data"].inCipher, zero)

(***************************************************************************)
(* Property of the stream echo, checked under SpecStream.                  *)
(***************************************************************************)
\* C16: stream echo round trip.  For any message m, after the client's
\* Send(m) and Flush the server's Recv yields m; after the server's Send of
\* what it received and Flush the client's Recv yields m again: the message
\* received back is the message sent.
C16_StreamEchoRoundTrip ==
  /\ stPc \in {"received", "echoed", "replied", "done"} => stSrvData = stMsg
  /\ stPc = "done" => stCliData = stMsg /\ stC2S = << >> /\ stS2C = << >>

\* C16 witness: the client has received back a message of full length that
\* holds a zero byte.
C16_Witness ==
  /\ stPc = "done"
  /\ Len(stMsg) = MaxMsgLen
  /\ stMsg[1] = 0
  /\ stMsg[MaxMsgLen] # 0
  /\ stCliData = stMsg

(***************************************************************************)
(* Property of the locking, checked under SpecLocks.                       *)
(***************************************************************************)
\* C18: every lock an operation acquires is released on every exit path:
\* when subscribe, unsubscribe (both ErrNotSubscribed returns and the
\* cascading return included), acceptRelay (success and the three failure
\* returns), Beat or Dead has returned, the calling goroutine holds none of
\* the overlay lock, the per-topic lock, the relay socket lock and the
\* carrier lock.
C18_LocksReleasedOnReturn ==
  \A t \in LockThreads :
    lkPc[t] \in {"idle", "returned"} =>
      /\ lkHeld[t] \cap LockNames = {}
      /\ lkDefer[t] = << >>

\* C18 witness: one goroutine has left unsubscribe by the second
\* ErrNotSubscribed return, the other acceptRelay by its third failure
\* return.
C18_Witness ==
  /\ lkPc[1] = "returned" /\ lkRet[1] = "u297"
  /\ lkPc[2] = "returned" /\ lkRet[2] = "a103"

(***************************************************************************)
(* Property of concurrent subscribe and unsubscribe calls, checked under   *)
(* SpecOverlay.                                                            *)
(***************************************************************************)
\* C19: cascade operations on a topic are serialized.  Under any
\* interleaving of subscribe and unsubscribe calls on a topic,
\* scribe.Subscribe and scribe.Unsubscribe reach the routing service in the
\* order of the map changes that caused them: once all calls have returned,
\* the last call that reached the routing service for the topic is a
\* Subscribe if and only if the topic has an entry in the subscription map.
C19_CascadeSerialized ==
  AllReturned =>
    \A tp \in TopicNames : (scribeLast[tp] = "Subscribe") <=> (tp \in DOMAIN subLive)

(***************************************************************************)
(* Property of the report assembly, checked under SpecCycle.               *)
(***************************************************************************)
\* C20: report assembly in Beat is consistent per topic.  In each Beat,
\* GenerateReport and Cycle are invoked once each on every topic, Cycle
\* after GenerateReport, and Cycle resets exactly the counters the report
\* was computed from: a delivery counted while Beat runs is in this beat's
\* report or stays counted for the next one, so that between beats every
\* delivery is either reported or still counted.
C20_ReportAssemblyConsistent ==
  /\ cyPc.phase = "send" =>
       \A t \in TopicIds : cyCalls[t] = <<"GenerateReport", "Cycle">>
  /\ cyPc.phase \in {"idle", "send"} =>
       \A t \in TopicIds, n \in Nodes :
         cyDelivered[t][n] = cyReported[t][n] + cyMsgs[t][n]

====
